---- MODULE Spec2Model ----
(***************************************************************************)
(* Fish Folly: the client/server replication layer.                        *)
(*                                                                         *)
(*   SpecNet    - one direction of one connection at byte level:           *)
(*                NetStream::send_message, the TCP stream, and             *)
(*                NetStream::process_input / next_message (net.rs).        *)
(*   SpecServer - the server side of Game::update at message level:        *)
(*                connection list, scene, match timer, delta compression   *)
(*                caches, the messages handed to send_message (server.rs,  *)
(*                lib.rs, level.rs) and a receiver applying the deltas     *)
(*                (client.rs).                                             *)
(*   SpecSpawn  - the same server from the connects of the peers to the    *)
(*                load of one level: the AddPlayers descriptors of         *)
(*                Server::on_scene_loaded (server.rs).                     *)
(*   SpecLevel  - the host process during one match: actors, the goal      *)
(*                trigger, the leaderboard, the match timer and the        *)
(*                menu's event channel (level.rs, trigger.rs, menu.rs).    *)
(*   SpecClient - a client process: the ServerMessages it has received     *)
(*                and its part of Game::update, Client::read_messages and  *)
(*                Client::update (client.rs, lib.rs).                      *)
(*   SpecClientLive - SpecClient whose frames keep coming.                 *)
(*   SpecLevelLive - SpecLevel whose frames keep coming.                   *)
(*   SpecRematch - the host process over two matches, from load to load    *)
(*                (lib.rs, level.rs).                                      *)
(*   SpecInput  - the client of a second peer: the avatars of a match and  *)
(*                the input of its player (client.rs, player.rs).          *)
(*   SpecDrain  - SpecNet's receiver with the read loop of                 *)
(*                process_input taken pass by pass (net.rs).               *)
(*   SpecBoard  - a Leaderboard on its own: finish, update and the win     *)
(*                list made of it (level.rs, client.rs).                   *)
(*   SpecActor  - one actor: ground contact, impacts and its ragdoll       *)
(*                (actor.rs).                                              *)
(***************************************************************************)
EXTENDS Integers, Sequences, FiniteSets, TLC

VARIABLES
    \* ---- SpecNet ----
    wire,          \* bytes written to the TcpStream and not yet read by the peer
    written,       \* history: every byte ever put on the stream, in order
    buffer,        \* NetStream.buffer of the receiving side
    delivered,     \* history: messages handed to func by process_input, in order
    netPanic,      \* the receiving process panicked inside next_message
    parseErrors,   \* number of "Failed to parse a network message" log lines
    sends,         \* number of frames written or attempted so far
    sendFailures,  \* number of send_message calls that returned Err
    drain,         \* the read loop of process_input: where it is, the state of
                   \* the socket, the reads that were interrupted or failed
    pumpIn,        \* history: buffer at the start of the pop-loop of the last pump
    pumpOut,       \* history: messages handed to func by the last pump
    sentOk,        \* history: messages whose send_message returned Ok, in order
    \* ---- SpecServer ----
    connections,   \* Server.connections: accepted connections, in list order
    pending,       \* connections waiting in the listener's accept queue
    broken,        \* connections whose peer is gone: send_message returns Err
    inbox,         \* per connection: ClientMessages received and not yet popped
    add_bots,      \* Server.add_bots
    loading,       \* the level the host's scene loader is loading, or "none"
    sceneLevel,    \* Game.level.scene: "none" or the level that is loaded
    nodes,         \* the scene graph: handle -> node
    match_timer,   \* Level.match_timer, in seconds
    previous_node_states,   \* Server.previous_node_states: handle -> NodeState
    previous_sound_states,  \* Server.previous_sound_states: handle -> SoundState
    nextId,        \* next instance id generate_ids hands out
    pendingSpawns, \* AddPlayers descriptors the host has still to instantiate
    hostEndMatch,  \* an EndMatch of this match has reached the host's client
    matches,       \* number of start_game calls so far
    serverPanic,   \* the server process panicked
    lastHandler,   \* history: the handler that has just run: start_game,
                   \* on_scene_loaded or update; "none" once anything else happened
    lastResult,    \* history: "Ok" | "Err" | "Panic", what that handler returned
    sendLog,       \* history: send_message calls of that handler, in order
    tickSeen,      \* history: per instance id the tick of that handler saw
    loadReport,    \* history: the Level the last on_scene_loaded replaced, if it
                   \* has just run
    track,         \* history, per instance id of this match: what the
                   \* synchronizer saw, what it sent, what a receiver holds
    \* ---- SpecLevel ----
    actors,        \* Level.actors: handles of the actors that registered
    entries,       \* Level.leaderboard.entries: actor handle -> LeaderBoardEntry
    events,        \* LeaderBoardEvents in the menu's channel, not yet received
    inGoal,        \* actors whose rigid body is inside the bounds of the trigger
    lbWire,        \* LeaderBoard messages on their way to the host's own client
    finishOrder,   \* history: the actors finish was called for in this match,
                   \* each once, in the order of their first call
    refinished,    \* history: an actor had a second Finished event in this match
    trigReport,    \* history: the last Trigger::on_update, if it has just run
    drainReport,   \* history: the last Menu::update, if it has just run
    \* ---- SpecClient ----
    cQueue,        \* ServerMessages a client has received and not yet popped
    cLoading,      \* the client's scene loader has a request it has not finished
    cPending,      \* descriptors of the add_players tasks that have not finished
    cLoaded,       \* the client's level.scene is a loaded scene
    cNodes,        \* the client's scene: instance id -> local transform
    cEntries,      \* the client's level.leaderboard.entries
    cWin,          \* Client.win_context: <<>> (None) or <<timer>>, in seconds
    cTimer,        \* the client process's level.match_timer
    cResult,       \* history: what the client's last read_messages returned
    cReport,       \* history: the last read_messages, if it has just run
    cInput,        \* history: the last Player::on_os_event, if it has just run
    \* ---- SpecBoard ----
    board,         \* a Leaderboard and the scene it is updated against
    \* ---- SpecActor ----
    actorState     \* an Actor, its ragdoll and the debug setting

netVars == <<wire, written, buffer, delivered, netPanic, parseErrors, sends,
             sendFailures, pumpIn, pumpOut, sentOk, drain>>

srvVars == <<connections, pending, broken, inbox, add_bots, loading, sceneLevel,
             nodes, match_timer, previous_node_states, previous_sound_states,
             nextId, pendingSpawns, hostEndMatch, matches, serverPanic,
             lastHandler, lastResult, sendLog, tickSeen, loadReport, track>>

lvlVars == <<actors, entries, events, inGoal, lbWire, finishOrder, refinished,
             trigReport, drainReport>>

cliVars == <<cQueue, cLoading, cPending, cLoaded, cNodes, cEntries, cWin, cTimer,
             cResult,
             cReport, cInput>>

unitVars == <<board, actorState>>

vars == <<netVars, srvVars, lvlVars, cliVars, unitVars>>

-----------------------------------------------------------------------------
(* Bounds of the model.                                                    *)

\* largest distance of an actor to the finish point
MaxDistance == 2
\* reads of one process_input call that are interrupted by a signal
MaxInterrupts == 1
\* passes of the read loop whose error log is told apart
MaxErrorLogs == 2
\* longest player name in a ClientMessage::Connect
MaxNameLen == 1
\* frames put on one stream
MaxSends == 2
\* send_message calls that fail part-way
MaxSendFailures == 1
\* peers that ever connect to the server (the host's own client is the first)
MaxConns == 3
\* the same where the ticks of a match are followed
MaxTickConns == 2
\* slots of a scene graph's node pool
MaxHandles == 2
\* positions and rotations are 0..MaxCoord
MaxCoord == 1
\* start_game calls
MaxMatches == 2
\* ClientMessages received by the server and not yet popped
MaxInbox == 1
\* actors of one match
MaxActors == 2
\* ServerMessages received by a client and not yet popped
MaxClientQueue == 2
\* NodeStates in one UpdateTick a client receives
MaxTickLen == 2

-----------------------------------------------------------------------------
(* Bytes and bincode.                                                      *)

Min(a, b) == IF a < b THEN a ELSE b

\* Decoded lengths at or above this value are all "longer than any buffer of
\* the model"; decoding saturates there so that arithmetic stays in range.
HugeLen == 1024 * 1024

\* n as w little-endian bytes (byteorder::WriteBytesExt::write_u32,
\* bincode fixint encoding of u32 / u64)
RECURSIVE LeBytes(_, _)
LeBytes(n, w) == IF w = 0 THEN <<>> ELSE <<n % 256>> \o LeBytes(n \div 256, w - 1)

\* u32::from_le_bytes / bincode's u64 read, saturating at HugeLen
RECURSIVE LeValue(_)
LeValue(bs) ==
    IF bs = <<>> THEN 0
    ELSE LET hi == LeValue(Tail(bs))
         IN  IF hi >= HugeLen THEN HugeLen ELSE Min(HugeLen, Head(bs) + 256 * hi)

\* characters of names: 'a' (ASCII); 255 is a byte that is never valid UTF-8
NameChar == 97
BadUtf8Byte == 255

RECURSIVE SeqsUpTo(_, _)
SeqsUpTo(S, n) ==
    IF n = 0 THEN {<<>>}
    ELSE LET shorter == SeqsUpTo(S, n - 1)
         IN  shorter \cup {Append(s, x) : s \in shorter, x \in S}

Names == SeqsUpTo({NameChar}, MaxNameLen)

\* enum ClientMessage { Connect { name: String } }
ClientMessage == [tag : {"Connect"}, name : Names]

Utf8Valid(bs) == \A i \in 1..Len(bs) : bs[i] < 128

\* bincode::serialize(&ClientMessage): u32 variant index, u64 length, bytes
Serialize(m) == LeBytes(0, 4) \o LeBytes(Len(m.name), 8) \o m.name

\* <ClientMessage as Message>::try_create = bincode::deserialize
\* (fixint, little endian, trailing bytes allowed)
try_create(bytes) ==
    IF Len(bytes) < 4 THEN [ok |-> FALSE]
    ELSE IF LeValue(SubSeq(bytes, 1, 4)) # 0 THEN [ok |-> FALSE]
    ELSE IF Len(bytes) < 12 THEN [ok |-> FALSE]
    ELSE LET n == LeValue(SubSeq(bytes, 5, 12))
         IN  IF Len(bytes) - 12 < n THEN [ok |-> FALSE]
             ELSE LET name == SubSeq(bytes, 13, 12 + n)
                  IN  IF Utf8Valid(name)
                      THEN [ok |-> TRUE, msg |-> [tag |-> "Connect", name |-> name]]
                      ELSE [ok |-> FALSE]

-----------------------------------------------------------------------------
(* NetStream (net.rs).                                                     *)

\* the bytes send_message puts on the stream when both writes complete
\* (data.len() as u32: the four low-order bytes of the length)
FrameBytes(data) == LeBytes(Len(data), 4) \o data

\* next_message with the frame end taken as the length alone (the 4 header
\* bytes forgotten)
next_message_EndWithoutHeader(b) ==
    IF Len(b) < 4 THEN [out |-> "None", buffer |-> b, logged |-> FALSE]
    ELSE LET length == LeValue(SubSeq(b, 1, 4))
             end == length
         IN  IF end > Len(b) \/ end < 4
             THEN [out |-> "Panic", buffer |-> b, logged |-> FALSE]
             ELSE LET r == try_create(SubSeq(b, 5, end))
                      rest == SubSeq(b, end + 1, Len(b))
                  IN  IF r.ok
                      THEN [out |-> "Some", msg |-> r.msg, buffer |-> rest,
                            logged |-> FALSE]
                      ELSE [out |-> "None", buffer |-> rest, logged |-> TRUE]

\* NetStream::next_message on buffer b
next_message(b) ==
    IF Len(b) < 4 THEN [out |-> "None", buffer |-> b, logged |-> FALSE]
    ELSE LET length == LeValue(SubSeq(b, 1, 4))
             end == 4 + length
         IN  IF end > Len(b)
             THEN \* &self.buffer[4..end]: range end index out of range
                  [out |-> "Panic", buffer |-> b, logged |-> FALSE]
             ELSE LET r == try_create(SubSeq(b, 5, end))
                      rest == SubSeq(b, end + 1, Len(b))
                  IN  IF r.ok
                      THEN [out |-> "Some", msg |-> r.msg, buffer |-> rest,
                            logged |-> FALSE]
                      ELSE [out |-> "None", buffer |-> rest, logged |-> TRUE]

\* the pop-loop of process_input: while let Some(message) = self.next_message()
RECURSIVE PopLoop(_, _)
PopLoop(b, out) ==
    LET r == next_message(b)
    IN  CASE r.out = "Some" -> PopLoop(r.buffer, Append(out, r.msg))
          [] r.out = "Panic" -> [buffer |-> r.buffer, out |-> out,
                                 panic |-> TRUE, logged |-> 0]
          [] OTHER -> [buffer |-> r.buffer, out |-> out, panic |-> FALSE,
                       logged |-> IF r.logged THEN 1 ELSE 0]

\* bodies a peer can frame correctly that are no ClientMessage
MalformedBodies ==
    { <<>>,                                              \* no variant index
      LeBytes(1, 4),                                     \* unknown variant
      LeBytes(0, 4) \o LeBytes(1, 8),                    \* name cut short
      LeBytes(0, 4) \o LeBytes(1, 8) \o <<BadUtf8Byte>> } \* invalid UTF-8

NetInit ==
    /\ wire = <<>>
    /\ written = <<>>
    /\ buffer = <<>>
    /\ delivered = <<>>
    /\ netPanic = FALSE
    /\ parseErrors = 0
    /\ sends = 0
    /\ sendFailures = 0
    /\ pumpIn = <<>>
    /\ pumpOut = <<>>
    /\ sentOk = <<>>
    /\ drain = [pc |-> "idle", sock |-> "open", interrupts |-> 0, logged |-> 0]

\* NetStream::send_message(&m): write_u32 then write_all on a non-blocking
\* socket. Each is std's write_all: bytes go out until the socket refuses
\* (WouldBlock, reset, ...), and then the call returns Err with the bytes
\* already written left on the stream. k is the number of bytes accepted.
SendMessage(m, k) ==
    /\ ~netPanic
    /\ sends < MaxSends
    /\ LET frame == FrameBytes(Serialize(m))
       IN  /\ k \in 0..Len(frame)
           /\ k < Len(frame) => sendFailures < MaxSendFailures
           /\ wire' = wire \o SubSeq(frame, 1, k)
           /\ written' = written \o SubSeq(frame, 1, k)
           /\ sendFailures' = IF k < Len(frame) THEN sendFailures + 1 ELSE sendFailures
           /\ sentOk' = IF k < Len(frame) THEN sentOk ELSE Append(sentOk, m)
    /\ sends' = sends + 1
    /\ UNCHANGED <<buffer, delivered, netPanic, parseErrors, pumpIn, pumpOut, drain>>
    /\ UNCHANGED <<unitVars, srvVars, lvlVars, cliVars>>

\* A peer that is not this program (another version, a port scanner) writes a
\* correctly framed body that does not deserialize.
SendMalformed(body) ==
    /\ ~netPanic
    /\ sends < MaxSends
    /\ wire' = wire \o FrameBytes(body)
    /\ written' = written \o FrameBytes(body)
    /\ sends' = sends + 1
    /\ UNCHANGED <<buffer, delivered, netPanic, parseErrors, sendFailures,
                   pumpIn, pumpOut, sentOk, drain>>
    /\ UNCHANGED <<unitVars, srvVars, lvlVars, cliVars>>

\* NetStream::process_input(func): the read loop takes every byte that has
\* arrived (the first k bytes in flight; then read reports WouldBlock), then
\* the pop-loop extracts messages.
ProcessInput(k) ==
    /\ ~netPanic
    /\ k \in 0..Len(wire)
    /\ LET b == buffer \o SubSeq(wire, 1, k)
           r == PopLoop(b, <<>>)
       IN  /\ pumpIn' = b
           /\ pumpOut' = r.out
           /\ buffer' = r.buffer
           /\ delivered' = delivered \o r.out
           /\ netPanic' = r.panic
           /\ parseErrors' = parseErrors + r.logged
    /\ wire' = SubSeq(wire, k + 1, Len(wire))
    /\ UNCHANGED <<written, sends, sendFailures, sentOk, drain>>
    /\ UNCHANGED <<unitVars, srvVars, lvlVars, cliVars>>

\* NetStream::process_input is called: the read loop starts. s is the state
\* the socket is in from now on: open, closed by the peer (read gives Ok(0)),
\* or failed with an error that every read reports (a reset connection)
DrainStart(s) ==
    /\ ~netPanic
    /\ drain.pc = "idle"
    /\ drain.sock = "open" \/ s = drain.sock
    /\ drain' = [pc |-> "reading", sock |-> s, interrupts |-> 0, logged |-> 0]
    /\ UNCHANGED <<wire, written, buffer, delivered, netPanic, parseErrors, sends,
                   sendFailures, pumpIn, pumpOut, sentOk>>
    /\ UNCHANGED <<unitVars, srvVars, lvlVars, cliVars>>

\* one pass of the read loop, by what self.stream.read returns:
\* Ok(k), k > 0 - the bytes go to the buffer, the loop goes on;
\* Ok(0), WouldBlock - break;
\* Interrupted - the loop goes on;
\* any other error - it is logged, and the loop goes on
DrainRead(outcome, k) ==
    /\ ~netPanic
    /\ drain.pc = "reading"
    /\ CASE outcome = "Data" ->
             /\ drain.sock = "open"
             /\ k \in 1..Len(wire)
             /\ buffer' = buffer \o SubSeq(wire, 1, k)
             /\ wire' = SubSeq(wire, k + 1, Len(wire))
             /\ UNCHANGED <<drain, delivered, netPanic, parseErrors, pumpIn, pumpOut>>
         [] outcome \in {"Zero", "WouldBlock"} ->
             /\ IF outcome = "Zero" THEN drain.sock = "closed"
                ELSE drain.sock = "open" /\ wire = <<>>
             /\ drain' = [drain EXCEPT !.pc = "popping"]
             /\ UNCHANGED <<wire, buffer, delivered, netPanic, parseErrors, pumpIn,
                            pumpOut>>
         [] outcome = "Interrupted" ->
             /\ drain.sock = "open"
             /\ drain.interrupts < MaxInterrupts
             /\ drain' = [drain EXCEPT !.interrupts = @ + 1]
             /\ UNCHANGED <<wire, buffer, delivered, netPanic, parseErrors, pumpIn,
                            pumpOut>>
         [] OTHER ->
             /\ drain.sock = "reset"
             /\ drain' = [drain EXCEPT !.logged = Min(@ + 1, MaxErrorLogs)]
             /\ UNCHANGED <<wire, buffer, delivered, netPanic, parseErrors, pumpIn,
                            pumpOut>>
    /\ UNCHANGED <<written, sends, sendFailures, sentOk>>
    /\ UNCHANGED <<unitVars, srvVars, lvlVars, cliVars>>

\* after the read loop: the pop-loop extracts the messages of the buffer and
\* process_input returns
DrainPop ==
    /\ drain.pc = "popping"
    /\ LET r == PopLoop(buffer, <<>>)
       IN  /\ pumpIn' = buffer
           /\ pumpOut' = r.out
           /\ buffer' = r.buffer
           /\ delivered' = delivered \o r.out
           /\ netPanic' = r.panic
           /\ parseErrors' = parseErrors + r.logged
    /\ drain' = [drain EXCEPT !.pc = "idle"]
    /\ UNCHANGED <<wire, written, sends, sendFailures, sentOk>>
    /\ UNCHANGED <<unitVars, srvVars, lvlVars, cliVars>>

\* the outcomes of a read
ReadOutcomes == {"Data", "Zero", "WouldBlock", "Interrupted", "Error"}

\* a pass of the read loop: a read returns one byte or more, up to all that
\* have arrived
DrainPass == \E outcome \in ReadOutcomes, k \in {1, Len(wire)} : DrainRead(outcome, k)

\* one direction of a connection with the read loop of the receiver taken
\* pass by pass
DrainNext ==
    \/ \E m \in ClientMessage, k \in 0..(16 + MaxNameLen) : SendMessage(m, k)
    \/ \E s \in {"open", "closed", "reset"} : DrainStart(s)
    \/ DrainPass
    \/ DrainPop

NetNext ==
    \/ \E m \in ClientMessage, k \in 0..(16 + MaxNameLen) : SendMessage(m, k)
    \/ \E body \in MalformedBodies : SendMalformed(body)
    \/ \E k \in 0..(MaxSends * (16 + MaxNameLen)) : ProcessInput(k)

-----------------------------------------------------------------------------
(* The server process: Game (lib.rs), Server (server.rs), Level (level.rs). *)

ConnIds == 1..MaxConns
Handles == 1..MaxHandles
Coords == 0..MaxCoord
Levels == {"A", "B"}

\* Level::default: match_timer = 15.0 * 60.0
FullMatchTime == 900
\* frame times of the model, in seconds
Dts == {420, 840}

\* The nodes a level file holds that can change while the match runs, and the
\* number of its start points. A: an audio emitter, one start point; B: a plain
\* node, two start points; C: as B with three start points.
LevelNodes(level) ==
    IF level = "A"
    THEN 1 :> [id |-> 1, position |-> 0, rotation |-> 0, sound |-> "stopped",
               script |-> "None", input |-> 0]
    ELSE 1 :> [id |-> 2, position |-> 0, rotation |-> 0, sound |-> "none",
               script |-> "None", input |-> 0]

StartPoints(level) == IF level = "A" THEN 1 ELSE IF level = "B" THEN 2 ELSE 3

Max(a, b) == IF a > b THEN a ELSE b

\* the sequence of the elements of a set of integers, ascending
RECURSIVE Ascending(_)
Ascending(S) ==
    IF S = {} THEN <<>>
    ELSE LET m == CHOOSE x \in S : \A y \in S : x <= y
         IN  <<m>> \o Ascending(S \ {m})

RECURSIVE Concat(_)
Concat(ss) == IF ss = <<>> THEN <<>> ELSE Head(ss) \o Concat(Tail(ss))

\* NetStream::send_message as the server sees it: Err on a dead connection
SendTo(c, msg) == [conn |-> c, msg |-> msg, ok |-> c \notin broken]

\* Server::broadcast_message_to_clients: every connection in list order; an
\* Err is logged and the loop goes on
broadcast_message_to_clients(conns, msg) ==
    [i \in 1..Len(conns) |-> SendTo(conns[i], msg)]

\* NodeState { node: instance_id, position, rotation } of a scene node
NodeStateOf(n) == [node |-> n.id, position |-> n.position, rotation |-> n.rotation]

\* SoundState { node: instance_id, is_playing: status == Playing }
SoundStateOf(n) == [node |-> n.id, is_playing |-> (n.sound = "playing")]

\* previous_node_states.entry(handle).or_insert(current_state.clone())
PrevNode(prev, h, cur) == IF h \in DOMAIN prev THEN prev[h] ELSE cur

\* the comparison done on the position alone
EmitsNode_PositionOnly(prev, h, cur) ==
    (IF h \in DOMAIN prev THEN prev[h] ELSE cur).position # cur.position

\* if *prev_state != current_state { tick_data.nodes.push(..) }
EmitsNode(prev, h, cur) == PrevNode(prev, h, cur) # cur

\* the loop body without *prev_state = current_state
NextPrevNode_NotStored(prev, h, cur) == IF h \in DOMAIN prev THEN prev[h] ELSE cur

\* the cache entry of handle h after the loop body ran for it
NextPrevNode(prev, h, cur) ==
    IF EmitsNode(prev, h, cur) THEN cur ELSE PrevNode(prev, h, cur)

\* the same three for the Sound component
PrevSound(prev, h, cur) == IF h \in DOMAIN prev THEN prev[h] ELSE cur

EmitsSound(prev, h, cur) == PrevSound(prev, h, cur) # cur

NextPrevSound(prev, h, cur) ==
    IF EmitsSound(prev, h, cur) THEN cur ELSE PrevSound(prev, h, cur)

IsSound(n) == n.sound # "none"

\* tick_data.nodes of one Server::update: graph.pair_iter() goes by pool index
TickNodes(prev, graph) ==
    LET hs == Ascending({h \in DOMAIN graph : EmitsNode(prev, h, NodeStateOf(graph[h]))})
    IN  [i \in 1..Len(hs) |-> NodeStateOf(graph[hs[i]])]

TickSounds(prev, graph) ==
    LET hs == Ascending({h \in DOMAIN graph :
                            /\ IsSound(graph[h])
                            /\ EmitsSound(prev, h, SoundStateOf(graph[h]))})
    IN  [i \in 1..Len(hs) |-> SoundStateOf(graph[hs[i]])]

\* Server.previous_node_states after the loop
NodeCacheAfter(prev, graph) ==
    [h \in DOMAIN prev \cup DOMAIN graph |->
        IF h \in DOMAIN graph THEN NextPrevNode(prev, h, NodeStateOf(graph[h]))
        ELSE prev[h]]

SoundCacheAfter(prev, graph) ==
    LET snd == {h \in DOMAIN graph : IsSound(graph[h])}
    IN  [h \in DOMAIN prev \cup snd |->
            IF h \in snd THEN NextPrevSound(prev, h, SoundStateOf(graph[h]))
            ELSE prev[h]]

\* Client::read_messages, UpdateTick: what one NodeState entry does to the
\* transform of the node it names
ApplyNodeState(t, entry) ==
    LET p == IF t.position # entry.position THEN entry.position ELSE t.position
        r == IF t.rotation # entry.rotation THEN entry.rotation ELSE t.rotation
    IN  [position |-> p, rotation |-> r]

\* a receiver's transform of instance id after it applied every entry of a tick
RECURSIVE ApplyTick(_, _, _)
ApplyTick(t, id, list) ==
    IF list = <<>> THEN t
    ELSE ApplyTick(IF Head(list).node = id THEN ApplyNodeState(t, Head(list)) ELSE t,
                   id, Tail(list))

\* Level::update: the timer of a loaded scene
LevelTimerAfter(timer, dt) == Max(timer - dt, 0)

\* Level::is_match_ended
is_match_ended(timer) == timer <= 0

\* the handle of the node with instance id `id` (graph.node_by_id_mut)
NodeById(graph, id) == {h \in DOMAIN graph : graph[h].id = id}

\* Server::read_messages: connection after connection, message after message.
\* Gives the inboxes and the graph it leaves and how it ended.
RECURSIVE ReadMessages(_, _, _, _)
ReadMessages(conns, inb, graph, loaded) ==
    IF conns = <<>> THEN [inbox |-> inb, nodes |-> graph, result |-> "Ok"]
    ELSE LET c == Head(conns)
         IN  IF inb[c] = <<>> THEN ReadMessages(Tail(conns), inb, graph, loaded)
             ELSE LET msg == Head(inb[c])
                      inb2 == [inb EXCEPT ![c] = Tail(inb[c])]
                      hs == NodeById(graph, msg.player)
                  IN  IF ~loaded
                      THEN \* &mut ctx.scenes[scene] on a handle that is not alive
                           [inbox |-> inb2, nodes |-> graph, result |-> "Panic"]
                      ELSE IF hs = {}
                      THEN \* node_by_id_mut(player)?
                           [inbox |-> inb2, nodes |-> graph, result |-> "Err"]
                      ELSE LET h == CHOOSE x \in hs : TRUE
                           IN  IF graph[h].script # "Player"
                               THEN \* try_get_script_mut::<Player>().ok_or_else(..)?
                                    [inbox |-> inb2, nodes |-> graph, result |-> "Err"]
                               ELSE ReadMessages(conns, inb2,
                                        [graph EXCEPT ![h].input = msg.input_state],
                                        loaded)

\* the send_message calls of Server::update on a loaded scene, in order
UpdateSends(conns, timer, prevN, prevS, graph) ==
    (IF is_match_ended(timer)
     THEN broadcast_message_to_clients(conns, [type |-> "EndMatch"])
     ELSE <<>>)
    \o broadcast_message_to_clients(conns, [type |-> "LeaderBoard"])
    \o broadcast_message_to_clients(conns,
           [type |-> "UpdateTick",
            nodes |-> TickNodes(prevN, graph),
            sounds |-> TickSounds(prevS, graph)])

\* the entries of a tick's list that name instance id
EntriesFor(list, id) == SelectSeq(list, LAMBDA e : e.node = id)

\* what the history keeps of node n after a tick that saw it and sent the
\* lists tickNodes and tickSounds:
\* now     - its NodeState at this tick
\* sent    - the last NodeState sent for it, or the state it was first seen in
\* sndSent - the same for its SoundState
\* mirror  - the transform of a receiver that had it in the state it was first
\*           seen in and has applied every tick's entries since
TrackAfter(tr, tickNodes, tickSounds, n) ==
    LET cur == NodeStateOf(n)
        snd == SoundStateOf(n)
        old == IF n.id \notin DOMAIN tr
               THEN [now |-> cur, sent |-> cur, sndSent |-> snd,
                     mirror |-> [position |-> cur.position, rotation |-> cur.rotation]]
               ELSE tr[n.id]
        ns == EntriesFor(tickNodes, n.id)
        ss == EntriesFor(tickSounds, n.id)
    IN  [now |-> cur,
         sent |-> IF ns # <<>> THEN ns[Len(ns)] ELSE old.sent,
         sndSent |-> IF ss # <<>> THEN ss[Len(ss)] ELSE old.sndSent,
         mirror |-> ApplyTick(old.mirror, n.id, tickNodes)]

\* what a tick saw of node n: whether this is the first tick to see it in this
\* match, its state at the tick before (s_(i-1)) and now (s_i)
SeenAt(tr, n) ==
    [first |-> n.id \notin DOMAIN tr,
     before |-> IF n.id \in DOMAIN tr THEN tr[n.id].now ELSE NodeStateOf(n),
     now |-> NodeStateOf(n)]

-----------------------------------------------------------------------------
(* The level: leaderboard and match timer (level.rs, trigger.rs, menu.rs). *)

ActorHandles == 1..MaxActors

\* LeaderBoardEntry { actor, ..Default::default() }
DefaultEntry(a) ==
    [actor |-> a, finished |-> FALSE, real_time_position |-> 0, finished_position |-> 0]

\* Leaderboard::finish, prev_position: the least finished_position of all
\* entries (min_by_key), 0 when there is no entry
prev_position(es) ==
    IF DOMAIN es = {} THEN 0
    ELSE LET ps == {es[a].finished_position : a \in DOMAIN es}
         IN  CHOOSE p \in ps : \A q \in ps : p <= q

\* Leaderboard::finish(actor) on the entries es: the entries it leaves and the
\* events it sends (the sender is set: the menu exists when a match is started)
finish(es, a) ==
    LET place == prev_position(es) + 1
        e == IF a \in DOMAIN es THEN es[a] ELSE DefaultEntry(a)
    IN  IF ~e.finished
        THEN [entries |-> (a :> [e EXCEPT !.finished_position = place,
                                          !.finished = TRUE]) @@ es,
              events |-> <<[actor |-> a, place |-> place]>>]
        ELSE [entries |-> (a :> e) @@ es, events |-> <<>>]

\* the loop of Trigger::on_update: finish for every actor inside the bounds,
\* in the order the HashSet yields them
RECURSIVE FinishEach(_, _)
FinishEach(es, order) ==
    IF order = <<>> THEN [entries |-> es, events |-> <<>>]
    ELSE LET r == finish(es, Head(order))
             rest == FinishEach(r.entries, Tail(order))
         IN  [entries |-> rest.entries, events |-> r.events \o rest.events]

\* the orders a HashSet can yield the elements of S in
Orders(S) ==
    {o \in SeqsUpTo(S, Cardinality(S)) :
        Len(o) = Cardinality(S) /\ \A i, j \in 1..Len(o) : i # j => o[i] # o[j]}

IndexOf(seq, x) == CHOOSE i \in 1..Len(seq) : seq[i] = x

\* Leaderboard::update: the actors sorted by their distance to the finish
\* point (the ones inside the goal first), real_time_position = place in
\* that order, an entry made for every actor that has none
LeaderboardUpdate(es, acts, goal) ==
    LET order == Ascending(acts \cap goal) \o Ascending(acts \ goal)
    IN  [a \in DOMAIN es \cup acts |->
            IF a \in acts
            THEN [(IF a \in DOMAIN es THEN es[a] ELSE DefaultEntry(a))
                     EXCEPT !.real_time_position = IndexOf(order, a) - 1]
            ELSE es[a]]

\* the seconds a match lasts at most once somebody has finished
SuddenDeathTime == 60

\* sudden_death that sets the timer whatever it was
sudden_death_Always(timer) == SuddenDeathTime

\* Level::sudden_death
sudden_death(timer) == IF timer > SuddenDeathTime THEN SuddenDeathTime ELSE timer

\* a Menu::update that takes the events off the channel and ignores them
DrainEvents_Ignored(timer, evs) == timer

\* Menu::update, the loop over the channel: sudden_death for every event
RECURSIVE DrainEvents(_, _)
DrainEvents(timer, evs) ==
    IF evs = <<>> THEN timer ELSE DrainEvents(sudden_death(timer), Tail(evs))

\* LeaderBoardMessage.players of Server::update: entries.values() collected
PlayersOf(es) ==
    LET hs == Ascending(DOMAIN es) IN [i \in 1..Len(hs) |-> es[hs[i]]]

\* the LeaderBoard arm without the replacement: the received entries are put
\* into the mapping that is there
FromPlayers_Merged(old, ps) ==
    [a \in DOMAIN old \cup {ps[i].actor : i \in 1..Len(ps)} |->
        IF \E i \in 1..Len(ps) : ps[i].actor = a
        THEN ps[CHOOSE i \in 1..Len(ps) :
                   ps[i].actor = a /\ \A j \in 1..Len(ps) : ps[j].actor = a => j <= i]
        ELSE old[a]]

\* Client::read_messages, LeaderBoard: players.into_iter().map(|e| (e.actor, e))
\* collected into the map that replaces the entries (of two entries for one
\* actor the later stays)
FromPlayers(old, ps) ==
    [a \in {ps[i].actor : i \in 1..Len(ps)} |->
        ps[CHOOSE i \in 1..Len(ps) :
               ps[i].actor = a /\ \A j \in 1..Len(ps) : ps[j].actor = a => j <= i]]

\* the reports of the level's handlers are history once anything else happens
LvlNoReport ==
    /\ trigReport' = <<>>
    /\ drainReport' = <<>>

LvlInit ==
    /\ actors = {}
    /\ entries = <<>>
    /\ events = <<>>
    /\ inGoal = {}
    /\ lbWire = <<>>
    /\ finishOrder = <<>>
    /\ refinished = FALSE
    /\ trigReport = <<>>
    /\ drainReport = <<>>

\* the report of the last handler is history once anything else happens
NoReport ==
    /\ lastHandler' = "none"
    /\ loadReport' = <<>>
    /\ lastResult' = "Ok"
    /\ sendLog' = <<>>
    /\ tickSeen' = <<>>

SrvInit ==
    /\ connections = <<1>>
    /\ pending = <<>>
    /\ broken = {}
    /\ inbox = [c \in ConnIds |-> <<>>]
    /\ add_bots = TRUE
    /\ loading = "none"
    /\ sceneLevel = "none"
    /\ nodes = <<>>
    /\ match_timer = FullMatchTime
    /\ previous_node_states = <<>>
    /\ previous_sound_states = <<>>
    /\ nextId = 10
    /\ pendingSpawns = {}
    /\ hostEndMatch = FALSE
    /\ matches = 0
    /\ serverPanic = FALSE
    /\ lastHandler = "none"
    /\ lastResult = "Ok"
    /\ sendLog = <<>>
    /\ tickSeen = <<>>
    /\ loadReport = <<>>
    /\ track = <<>>

HostConn == connections[1]

\* a remote peer connects: TcpListener queues it until the next accept
PeerConnects ==
    /\ ~serverPanic
    /\ Len(connections) + Len(pending) < MaxConns
    /\ pending' = Append(pending, Len(connections) + Len(pending) + 1)
    /\ UNCHANGED <<connections, broken, inbox, add_bots, loading, sceneLevel, nodes,
                   match_timer, previous_node_states, previous_sound_states, nextId,
                   pendingSpawns, hostEndMatch, matches, serverPanic, track>>
    /\ NoReport
    /\ UNCHANGED <<unitVars, netVars, lvlVars, cliVars>>

\* a remote peer goes away (process killed, cable pulled): from now on a send
\* to it fails
PeerBreaks(c) ==
    /\ ~serverPanic
    /\ c # HostConn
    /\ c \notin broken
    /\ \E i \in 1..Len(connections) : connections[i] = c
    /\ broken' = broken \cup {c}
    /\ UNCHANGED <<connections, pending, inbox, add_bots, loading, sceneLevel, nodes,
                   match_timer, previous_node_states, previous_sound_states, nextId,
                   pendingSpawns, hostEndMatch, matches, serverPanic, track>>
    /\ NoReport
    /\ UNCHANGED <<unitVars, netVars, lvlVars, cliVars>>

RECURSIVE SumLen(_, _)
SumLen(f, S) ==
    IF S = {} THEN 0
    ELSE LET c == CHOOSE x \in S : TRUE IN Len(f[c]) + SumLen(f, S \ {c})

InboxTotal(inb) == SumLen(inb, DOMAIN inb)

\* the instance ids of the avatars announced for the match that is loaded
AvatarIds ==
    {nodes[h].id : h \in {x \in DOMAIN nodes : nodes[x].script # "None"}}
    \cup {d.ids : d \in pendingSpawns}

\* a peer's Player::on_os_event sent ClientMessage::Input { player, input_state }
\* and it arrived; player 0 is an id no node of any scene has
PeerInput(c, player) ==
    /\ ~serverPanic
    /\ \E i \in 1..Len(connections) : connections[i] = c
    /\ c \notin broken
    /\ InboxTotal(inbox) < MaxInbox
    /\ player \in {0} \cup AvatarIds
    /\ inbox' = [inbox EXCEPT ![c] = Append(@, [player |-> player, input_state |-> 1])]
    /\ UNCHANGED <<connections, pending, broken, add_bots, loading, sceneLevel, nodes,
                   match_timer, previous_node_states, previous_sound_states, nextId,
                   pendingSpawns, hostEndMatch, matches, serverPanic, track>>
    /\ NoReport
    /\ UNCHANGED <<unitVars, netVars, lvlVars, cliVars>>

\* ServerMenu::handle_ui_message, the add-bots check box of the server menu
SetAddBots(value) ==
    /\ ~serverPanic
    /\ value # add_bots
    /\ sceneLevel = "none"
    /\ loading = "none"
    /\ add_bots' = value
    /\ UNCHANGED <<connections, pending, broken, inbox, loading, sceneLevel, nodes,
                   match_timer, previous_node_states, previous_sound_states, nextId,
                   pendingSpawns, hostEndMatch, matches, serverPanic, track>>
    /\ NoReport
    /\ UNCHANGED <<unitVars, netVars, lvlVars, cliVars>>

\* ServerMenu::handle_ui_message, the start button: Server::start_game(path),
\* pressed in the menu while no level is loaded or loading. The host's own
\* client gets the LoadLevel like every peer and asks the scene loader for it.
StartGame(level) ==
    /\ ~serverPanic
    /\ matches < MaxMatches
    /\ sceneLevel = "none"
    /\ loading = "none"
    /\ matches' = matches + 1
    /\ sendLog' = broadcast_message_to_clients(connections,
                                               [type |-> "LoadLevel", path |-> level])
    /\ loading' = IF HostConn \in broken THEN loading ELSE level
    /\ lastHandler' = "start_game"
    /\ loadReport' = <<>>
    /\ lastResult' = "Ok"
    /\ tickSeen' = <<>>
    /\ UNCHANGED <<connections, pending, broken, inbox, add_bots, sceneLevel, nodes,
                   match_timer, previous_node_states, previous_sound_states, nextId,
                   pendingSpawns, hostEndMatch, serverPanic, track>>
    /\ UNCHANGED <<unitVars, netVars, lvlVars, cliVars>>

\* a Level that takes the new scene and keeps the rest of the old one
LevelDefault_Kept ==
    [actors |-> actors, entries |-> entries, match_timer |-> match_timer]

\* Level::default, the value Game::on_scene_loaded replaces self.level with:
\* no actors, an empty leaderboard, the full match time
LevelDefault == [actors |-> {}, entries |-> <<>>, match_timer |-> FullMatchTime]

\* the AddPlayers message on_scene_loaded builds for one avatar
AddPlayers(path, position, ids, kind) ==
    [type |-> "AddPlayers", path |-> path, position |-> position, ids |-> ids,
     kind |-> kind]

\* a tag that is Player for every avatar but the receiver's own
KindFor_Swapped(player_num, connection_num) ==
    IF player_num # connection_num THEN "Player" ELSE "RemotePlayer"

\* the ActorKind of the avatar of player_num in the descriptor that goes to
\* connection_num
KindFor(player_num, connection_num) ==
    IF player_num # connection_num THEN "RemotePlayer" ELSE "Player"

\* Server::on_scene_loaded, the loop over player_num: every send_message call
\* it would make if none failed. Player number p takes the id map firstId+p-1
\* (generate_ids runs once per player_num) and start point p.
PlayerSends(conns, nStart, firstId) ==
    Concat([p \in 1..Len(conns) |->
              IF p <= nStart
              THEN [i \in 1..Len(conns) |->
                      SendTo(conns[i],
                             AddPlayers("data/models/player.rgs", p, firstId + p - 1,
                                        KindFor(p, i)))]
              ELSE <<>>])

\* the loop over the start points that are left, when add_bots is set
BotSends(conns, nStart, firstId) ==
    Concat([k \in 1..Max(nStart - Len(conns), 0) |->
              [i \in 1..Len(conns) |->
                  SendTo(conns[i],
                         AddPlayers("data/models/bot.rgs", Len(conns) + k,
                                    firstId + Len(conns) + k - 1, "Bot"))]])

\* .unwrap() on every send: the calls made up to and with the first that fails
RECURSIVE UntilFirstErr(_)
UntilFirstErr(log) ==
    IF log = <<>> THEN <<>>
    ELSE IF ~Head(log).ok THEN <<Head(log)>>
    ELSE <<Head(log)>> \o UntilFirstErr(Tail(log))

SceneLoadedSends(conns, nStart, firstId, bots) ==
    UntilFirstErr(PlayerSends(conns, nStart, firstId)
                  \o (IF bots THEN BotSends(conns, nStart, firstId) ELSE <<>>))

AnyErr(log) == \E i \in 1..Len(log) : ~log[i].ok

\* Game::on_scene_begin_loading and Game::on_scene_loaded in the server
\* process, when the scene loader has finished the level the host asked for:
\* the level state is built anew (Level { scene, ..Default::default() }, the
\* sender of the menu's channel put into its leaderboard) and
\* Server::on_scene_loaded announces the avatars.
SceneLoaded ==
    /\ ~serverPanic
    /\ loading # "none"
    /\ LET level == loading
           log == SceneLoadedSends(connections, StartPoints(level), nextId, add_bots)
           n == Len(connections)
       IN  /\ sceneLevel' = level
           /\ nodes' = LevelNodes(level)
           /\ sendLog' = log
           /\ serverPanic' = AnyErr(log)
           /\ lastResult' = IF AnyErr(log) THEN "Panic" ELSE "Ok"
           /\ nextId' = nextId + n
                        + (IF add_bots THEN Max(StartPoints(level) - n, 0) ELSE 0)
           /\ pendingSpawns' =
                 {[ids |-> log[i].msg.ids, path |-> log[i].msg.path] :
                     i \in {j \in 1..Len(log) : log[j].conn = HostConn /\ log[j].ok}}
    /\ loading' = "none"
    /\ match_timer' = LevelDefault.match_timer
    /\ hostEndMatch' = FALSE
    /\ track' = <<>>
    /\ tickSeen' = <<>>
    /\ lastHandler' = "on_scene_loaded"
    /\ loadReport' = [entries |-> entries, match_timer |-> match_timer]
    /\ actors' = LevelDefault.actors
    /\ entries' = LevelDefault.entries
    /\ inGoal' = {}
    /\ finishOrder' = <<>>
    /\ refinished' = FALSE
    /\ LvlNoReport
    /\ UNCHANGED <<connections, pending, broken, inbox, add_bots,
                   previous_node_states, previous_sound_states, matches,
                   events, lbWire>>
    /\ UNCHANGED <<unitVars, netVars, cliVars>>

\* the host's client finished an add_players task: the prefab is instantiated
\* in the scene with the ids of the descriptor, at the first free pool slot
InstantiatePlayer(d) ==
    /\ ~serverPanic
    /\ sceneLevel # "none"
    /\ d \in pendingSpawns
    /\ Handles \ DOMAIN nodes # {}
    /\ LET h == CHOOSE x \in Handles \ DOMAIN nodes :
                    \A y \in Handles \ DOMAIN nodes : x <= y
       IN  nodes' = (h :> [id |-> d.ids, position |-> 0, rotation |-> 0,
                           sound |-> "none",
                           script |-> IF d.path = "data/models/player.rgs"
                                      THEN "Player" ELSE "Bot",
                           input |-> 0]) @@ nodes
    /\ pendingSpawns' = pendingSpawns \ {d}
    /\ UNCHANGED <<connections, pending, broken, inbox, add_bots, loading, sceneLevel,
                   match_timer, previous_node_states, previous_sound_states, nextId,
                   hostEndMatch, matches, serverPanic, track>>
    /\ NoReport
    /\ UNCHANGED <<unitVars, netVars, lvlVars, cliVars>>

\* physics and the scripts of the authoritative scene move a node: a node of
\* the level file turns, an avatar changes place
SceneStep(h, v) ==
    /\ ~serverPanic
    /\ sceneLevel # "none"
    /\ h \in DOMAIN nodes
    /\ IF nodes[h].script = "None"
       THEN /\ v # nodes[h].rotation
            /\ nodes' = [nodes EXCEPT ![h].rotation = v]
       ELSE /\ v # nodes[h].position
            /\ nodes' = [nodes EXCEPT ![h].position = v]
    /\ UNCHANGED <<connections, pending, broken, inbox, add_bots, loading, sceneLevel,
                   match_timer, previous_node_states, previous_sound_states, nextId,
                   pendingSpawns, hostEndMatch, matches, serverPanic, track>>
    /\ NoReport
    /\ UNCHANGED <<unitVars, netVars, lvlVars, cliVars>>

\* an audio emitter of the scene starts or stops playing
SoundStep(h) ==
    /\ ~serverPanic
    /\ sceneLevel # "none"
    /\ h \in DOMAIN nodes
    /\ IsSound(nodes[h])
    /\ nodes' = [nodes EXCEPT ![h].sound =
                    IF @ = "playing" THEN "stopped" ELSE "playing"]
    /\ UNCHANGED <<connections, pending, broken, inbox, add_bots, loading, sceneLevel,
                   match_timer, previous_node_states, previous_sound_states, nextId,
                   pendingSpawns, hostEndMatch, matches, serverPanic, track>>
    /\ NoReport
    /\ UNCHANGED <<unitVars, netVars, lvlVars, cliVars>>

\* Client::read_messages of the host's client, EndMatch: ctx.scenes.remove and
\* level.scene = Handle::NONE, in the process the server runs in. The scripts
\* of the removed scene are deinitialised: Player/Bot::on_deinit take their
\* actors out of level.actors.
HostClientEndMatch ==
    /\ ~serverPanic
    /\ hostEndMatch
    /\ sceneLevel # "none"
    /\ sceneLevel' = "none"
    /\ nodes' = <<>>
    /\ hostEndMatch' = FALSE
    /\ pendingSpawns' = {}
    /\ track' = <<>>
    /\ actors' = {}
    /\ inGoal' = {}
    /\ LvlNoReport
    /\ UNCHANGED <<connections, pending, broken, inbox, add_bots, loading,
                   match_timer, previous_node_states, previous_sound_states, nextId,
                   matches, serverPanic, entries, events, lbWire, finishOrder,
                   refinished>>
    /\ NoReport
    /\ UNCHANGED <<unitVars, netVars, cliVars>>

\* Player::on_init / Bot::on_init of an avatar this process instantiated:
\* level.actors.insert(handle). The pool hands out its free slots in order.
ActorInit(a) ==
    /\ ~serverPanic
    /\ sceneLevel # "none"
    /\ a \notin actors
    /\ \A b \in ActorHandles : b < a => b \in actors
    /\ actors' = actors \cup {a}
    /\ UNCHANGED <<entries, events, inGoal, lbWire, finishOrder, refinished>>
    /\ LvlNoReport
    /\ NoReport
    /\ UNCHANGED <<connections, pending, broken, inbox, add_bots, loading, sceneLevel,
                   nodes, match_timer, previous_node_states, previous_sound_states,
                   nextId, pendingSpawns, hostEndMatch, matches, serverPanic, track>>
    /\ UNCHANGED <<unitVars, netVars, cliVars>>

\* physics moves the rigid body of an actor into the bounds of the trigger or
\* out of them
ActorMoves(a) ==
    /\ ~serverPanic
    /\ sceneLevel # "none"
    /\ a \in actors
    /\ inGoal' = IF a \in inGoal THEN inGoal \ {a} ELSE inGoal \cup {a}
    /\ UNCHANGED <<actors, entries, events, lbWire, finishOrder, refinished>>
    /\ LvlNoReport
    /\ NoReport
    /\ UNCHANGED <<connections, pending, broken, inbox, add_bots, loading, sceneLevel,
                   nodes, match_timer, previous_node_states, previous_sound_states,
                   nextId, pendingSpawns, hostEndMatch, matches, serverPanic, track>>
    /\ UNCHANGED <<unitVars, netVars, cliVars>>

\* Trigger::on_update in the server process (is_client() is false): finish for
\* every registered actor whose rigid body is inside the bounds
TriggerUpdate(order) ==
    /\ ~serverPanic
    /\ sceneLevel # "none"
    /\ order # <<>>
    /\ order \in Orders(actors \cap inGoal)
    /\ LET r == FinishEach(entries, order)
           new == SelectSeq(order, LAMBDA a :
                      \A i \in 1..Len(finishOrder) : finishOrder[i] # a)
       IN  /\ entries' = r.entries
           /\ events' = events \o r.events
           /\ finishOrder' = finishOrder \o new
           /\ refinished' = (refinished \/
                 \E i \in 1..Len(r.events), k \in 1..Len(finishOrder) :
                     r.events[i].actor = finishOrder[k])
           /\ trigReport' = [before |-> entries, calls |-> order, emitted |-> r.events]
    /\ drainReport' = <<>>
    /\ lastHandler' = "on_update"
    /\ loadReport' = <<>>
    /\ lastResult' = "Ok"
    /\ sendLog' = <<>>
    /\ tickSeen' = <<>>
    /\ UNCHANGED <<actors, inGoal, lbWire>>
    /\ UNCHANGED <<connections, pending, broken, inbox, add_bots, loading, sceneLevel,
                   nodes, match_timer, previous_node_states, previous_sound_states,
                   nextId, pendingSpawns, hostEndMatch, matches, serverPanic, track>>
    /\ UNCHANGED <<unitVars, netVars, cliVars>>

\* Game::on_os_event, the F4 key: self.level.match_timer = 3.0
KeyF4 ==
    /\ ~serverPanic
    /\ sceneLevel # "none"
    /\ match_timer > 3
    /\ match_timer' = 3
    /\ UNCHANGED <<actors, entries, events, inGoal, lbWire, finishOrder, refinished>>
    /\ LvlNoReport
    /\ NoReport
    /\ UNCHANGED <<connections, pending, broken, inbox, add_bots, loading, sceneLevel,
                   nodes, previous_node_states, previous_sound_states,
                   nextId, pendingSpawns, hostEndMatch, matches, serverPanic, track>>
    /\ UNCHANGED <<unitVars, netVars, cliVars>>

\* a list that takes the accepted connections at its front
accept_connections_Front(conns, accepted) == accepted \o conns

\* Server::accept_connections: Vec::extend with what the listener accepted
accept_connections(conns, accepted) == conns \o accepted

\* Game::update in the server process: accept_connections, read_messages(..)?,
\* update(..)? (Level::update and the broadcasts), then the host's own client
\* reads the LeaderBoard messages that have reached it into the same Level,
\* then Menu::update receives the events of the leaderboard. dt is the frame
\* time; late: the LeaderBoard sent in this frame has not reached the host's
\* client when it reads.
GameUpdate(dt, late) ==
    /\ ~serverPanic
    /\ LET conns == accept_connections(connections, pending)
           loaded == sceneLevel # "none"
           rd == ReadMessages(conns, inbox, nodes, loaded)
           timer == LevelTimerAfter(match_timer, dt)
           timer1 == IF loaded THEN timer ELSE match_timer
           es1 == IF loaded THEN LeaderboardUpdate(entries, actors, inGoal) ELSE entries
           sentLb == IF loaded /\ HostConn \notin broken
                     THEN <<PlayersOf(es1)>> ELSE <<>>
           wireAll == lbWire \o sentLb
           nRead == IF late THEN Len(wireAll) - 1 ELSE Len(wireAll)
           es2 == IF nRead = 0 THEN es1 ELSE FromPlayers(es1, wireAll[nRead])
       IN  /\ late => (rd.result = "Ok" /\ sentLb # <<>>)
           /\ connections' = conns
           /\ pending' = <<>>
           /\ inbox' = rd.inbox
           /\ nodes' = rd.nodes
           /\ lastResult' = rd.result
           /\ serverPanic' = (rd.result = "Panic")
           /\ IF rd.result = "Ok"
              THEN /\ entries' = es2
                   /\ lbWire' = SubSeq(wireAll, nRead + 1, Len(wireAll))
                   /\ match_timer' = DrainEvents(timer1, events)
                   /\ events' = <<>>
                   /\ drainReport' = IF events = <<>> THEN <<>>
                                     ELSE [before |-> timer1, received |-> Len(events)]
              ELSE /\ drainReport' = <<>>
                   /\ UNCHANGED <<entries, lbWire, match_timer, events>>
           /\ IF rd.result = "Ok" /\ loaded
              THEN /\ sendLog' = UpdateSends(conns, timer, previous_node_states,
                                             previous_sound_states, rd.nodes)
                   /\ previous_node_states' =
                          NodeCacheAfter(previous_node_states, rd.nodes)
                   /\ previous_sound_states' =
                          SoundCacheAfter(previous_sound_states, rd.nodes)
                   /\ hostEndMatch' = (hostEndMatch \/ is_match_ended(timer))
                   /\ tickSeen' = [id \in {rd.nodes[h].id : h \in DOMAIN rd.nodes} |->
                                  LET h == CHOOSE x \in DOMAIN rd.nodes :
                                               rd.nodes[x].id = id
                                  IN  SeenAt(track, rd.nodes[h])]
                   /\ track' = [id \in {rd.nodes[h].id : h \in DOMAIN rd.nodes} |->
                                  LET h == CHOOSE x \in DOMAIN rd.nodes :
                                               rd.nodes[x].id = id
                                  IN  TrackAfter(track,
                                          TickNodes(previous_node_states, rd.nodes),
                                          TickSounds(previous_sound_states, rd.nodes),
                                          rd.nodes[h])]
              ELSE /\ sendLog' = <<>>
                   /\ tickSeen' = <<>>
                   /\ UNCHANGED <<previous_node_states, previous_sound_states,
                                  hostEndMatch, track>>
    /\ lastHandler' = "update"
    /\ loadReport' = <<>>
    /\ trigReport' = <<>>
    /\ UNCHANGED <<broken, add_bots, loading, sceneLevel, nextId, pendingSpawns,
                   matches, actors, inGoal, finishOrder, refinished>>
    /\ UNCHANGED <<unitVars, netVars, cliVars>>

SrvNext ==
    \/ Len(connections) + Len(pending) < MaxTickConns /\ PeerConnects
    \/ \E c \in ConnIds : PeerBreaks(c)
    \/ \E c \in ConnIds, player \in {0} \cup AvatarIds : PeerInput(c, player)
    \/ \E value \in BOOLEAN : SetAddBots(value)
    \/ \E level \in Levels : StartGame(level)
    \/ SceneLoaded
    \/ \E d \in pendingSpawns : InstantiatePlayer(d)
    \/ \E h \in Handles, v \in Coords : SceneStep(h, v)
    \/ \E h \in Handles : SoundStep(h)
    \/ HostClientEndMatch
    \/ \E dt \in Dts : GameUpdate(dt, FALSE)

\* the levels a host can choose where the spawns of a match are followed
SpawnLevels == Levels \cup {"C"}

\* the server process from the connects of the peers to the first frames of
\* one match: who is sent which avatar when the level has loaded
SpawnNext ==
    \/ PeerConnects
    \/ \E c \in ConnIds : PeerBreaks(c)
    \/ \E value \in BOOLEAN : SetAddBots(value)
    \/ \E level \in SpawnLevels : matches = 0 /\ StartGame(level)
    \/ SceneLoaded
    \/ \E dt \in Dts : GameUpdate(dt, FALSE)

\* the server process with one host, its actors and the goal, for one match;
\* the host may send an input that names no node of the scene
LvlNext ==
    \/ matches = 0 /\ StartGame("A")
    \/ SceneLoaded
    \/ \E a \in ActorHandles : ActorInit(a)
    \/ \E a \in ActorHandles : ActorMoves(a)
    \/ \E order \in SeqsUpTo(ActorHandles, MaxActors) : TriggerUpdate(order)
    \/ KeyF4
    \/ sceneLevel # "none" /\ PeerInput(1, 0)
    \/ HostClientEndMatch
    \/ \E dt \in Dts, late \in BOOLEAN : GameUpdate(dt, late)

\* the scene of a client whose loader has finished: the node of level A. It
\* holds no Actor; the handles of the actors are counted from the first pool
\* slot that is free behind the level's nodes.
ClientLevelNodes ==
    LET n == LevelNodes("A")[1]
    IN  n.id :> [position |-> n.position, rotation |-> n.rotation, sound |-> n.sound,
                 handle |-> 0, kind |-> "None"]

\* the local transform of a node
TransformOf(n) == [position |-> n.position, rotation |-> n.rotation]

\* WinContext.timer when EndMatch makes it, in seconds
WinTime == 10

\* frame times of a client, in seconds
ClientDts == {6, 10}

\* the id map of the avatar the server announces first
FirstAvatarIds == 10

\* the AddPlayers descriptor of the client's own avatar
OwnAvatar ==
    [type |-> "AddPlayers", path |-> "data/models/player.rgs", position |-> 1,
     ids |-> FirstAvatarIds, kind |-> "Player"]

\* the AddPlayers descriptors that reach the peer of the second connection:
\* the avatar of the first connection, then its own
PeerAvatars ==
    <<[type |-> "AddPlayers", path |-> "data/models/player.rgs", position |-> 1,
       ids |-> FirstAvatarIds, kind |-> "RemotePlayer"],
      [type |-> "AddPlayers", path |-> "data/models/player.rgs", position |-> 2,
       ids |-> FirstAvatarIds + 1, kind |-> "Player"]>>

\* the NodeStates a tick can carry: of the level's node, moved or not, and of
\* the avatar
ClientNodeStates ==
    {[node |-> 1, position |-> v, rotation |-> 0] : v \in Coords}
    \cup {[node |-> FirstAvatarIds, position |-> 1, rotation |-> 0]}

\* the SoundStates a tick can carry: of the level's audio emitter
ClientSoundStates == {[node |-> 1, is_playing |-> b] : b \in BOOLEAN}

\* the leaderboards the server can send: no entry, the avatar's entry, the
\* entry of a second actor, both; the avatar has finished first
ClientBoards ==
    LET e1 == [DefaultEntry(1) EXCEPT !.finished = TRUE, !.finished_position = 1]
        e2 == [DefaultEntry(2) EXCEPT !.real_time_position = 1]
    IN  {<<>>, <<e1>>, <<e2>>, <<e1, e2>>}

\* the ServerMessages of one match that can reach a client; a tick holds one
\* NodeState for a node at most (Server::update visits every node once)
ServerMessages ==
    {[type |-> "LoadLevel", path |-> "A"]}
    \cup {OwnAvatar}
    \cup {[type |-> "UpdateTick", nodes |-> ns, sounds |-> <<>>] :
              ns \in {l \in SeqsUpTo(ClientNodeStates, MaxTickLen) :
                          \A i, j \in 1..Len(l) : l[i].node = l[j].node => i = j}}
    \cup {[type |-> "UpdateTick", nodes |-> <<>>, sounds |-> <<s>>] :
              s \in ClientSoundStates}
    \cup {[type |-> "LeaderBoard", players |-> ps] : ps \in ClientBoards}
    \cup {[type |-> "EndMatch"]}

\* Client::read_messages, UpdateTick: the loop over data.nodes; the ? on
\* node_by_id_mut leaves the loop, and read_messages, at the first entry
\* whose id no node of the scene has
RECURSIVE ApplyNodes(_, _)
ApplyNodes(ns, list) ==
    IF list = <<>> THEN [nodes |-> ns, result |-> "Ok"]
    ELSE IF Head(list).node \notin DOMAIN ns THEN [nodes |-> ns, result |-> "Err"]
    ELSE LET a == ApplyNodeState(TransformOf(ns[Head(list).node]), Head(list))
         IN  ApplyNodes([ns EXCEPT ![Head(list).node].position = a.position,
                                   ![Head(list).node].rotation = a.rotation],
                        Tail(list))

\* the calls of set_position and set_rotation one NodeState makes on the
\* transform t
WritesOf(t, entry) ==
    (IF t.position # entry.position THEN 1 ELSE 0)
    + (IF t.rotation # entry.rotation THEN 1 ELSE 0)

\* the same for the loop over data.nodes
RECURSIVE TickWrites(_, _)
TickWrites(ns, list) ==
    IF list = <<>> THEN 0
    ELSE IF Head(list).node \notin DOMAIN ns THEN 0
    ELSE WritesOf(TransformOf(ns[Head(list).node]), Head(list))
         + TickWrites(ApplyNodes(ns, <<Head(list)>>).nodes, Tail(list))

\* the handles of the client's scene that hold an Actor: the avatars its
\* add_players tasks have instantiated
ClientActorHandles(ns) == {ns[id].handle : id \in DOMAIN ns} \ {0}

\* Client::read_messages: message after message off the queue; st is the
\* client's level and scene. An Err (the ? operator) or a panic (unwrap)
\* leaves the messages behind the current one in the queue.
RECURSIVE ClientRead(_, _)
ClientRead(st, queue) ==
    IF queue = <<>> THEN [st |-> st, queue |-> <<>>, result |-> "Ok"]
    ELSE LET msg == Head(queue)
             rest == Tail(queue)
         IN  IF msg.type = "LoadLevel"
             THEN ClientRead([st EXCEPT !.loading = TRUE], rest)
             ELSE IF msg.type = "UpdateTick"
             THEN IF ~st.loaded
                  THEN [st |-> st, queue |-> rest, result |-> "Err"]
                  ELSE LET r == ApplyNodes(st.nodes, msg.nodes)
                       IN  IF r.result = "Err"
                           THEN [st |-> [st EXCEPT !.nodes = r.nodes],
                                 queue |-> rest, result |-> "Err"]
                           ELSE ClientRead([st EXCEPT !.nodes = r.nodes], rest)
             ELSE IF msg.type = "AddPlayers"
             THEN ClientRead([st EXCEPT !.pending = @ \cup {msg}], rest)
             ELSE IF msg.type = "EndMatch"
             THEN IF ~st.loaded
                  THEN [st |-> st, queue |-> rest, result |-> "Err"]
                  ELSE IF \E a \in DOMAIN st.entries : a \notin ClientActorHandles(st.nodes)
                  THEN [st |-> st, queue |-> rest, result |-> "Panic"]
                  ELSE ClientRead([st EXCEPT !.win = <<WinTime>>, !.loaded = FALSE,
                                             !.nodes = <<>>], rest)
             ELSE ClientRead([st EXCEPT !.entries = FromPlayers(@, msg.players)], rest)

\* Client::update: the timer of the win context, if there is one
ClientUpdate(win, dt) ==
    IF win = <<>> THEN <<>>
    ELSE IF win[1] - dt <= 0 THEN <<>> ELSE <<win[1] - dt>>

ClientNoReport == cReport' = <<>> /\ cInput' = <<>>

CliInit ==
    /\ cQueue = <<>>
    /\ cLoading = FALSE
    /\ cPending = {}
    /\ cLoaded = FALSE
    /\ cNodes = <<>>
    /\ cEntries = <<>>
    /\ cWin = <<>>
    /\ cTimer = LevelDefault.match_timer
    /\ cResult = "Ok"
    /\ cReport = <<>>
    /\ cInput = <<>>

\* a ServerMessage has arrived on the client's connection
ServerMessageArrives(msg) ==
    /\ cResult # "Panic"
    /\ Len(cQueue) < MaxClientQueue
    /\ cQueue' = Append(cQueue, msg)
    /\ ClientNoReport
    /\ UNCHANGED <<cLoading, cPending, cLoaded, cNodes, cEntries, cWin, cTimer,
                   cResult>>
    /\ UNCHANGED <<unitVars, netVars, srvVars, lvlVars>>

\* Game::on_scene_loaded in a client process: the loader has finished the
\* level LoadLevel asked for; the level state is built anew
ClientSceneLoaded ==
    /\ cResult # "Panic"
    /\ cLoading
    /\ cLoading' = FALSE
    /\ cLoaded' = TRUE
    /\ cNodes' = ClientLevelNodes
    /\ cEntries' = <<>>
    /\ ClientNoReport
    /\ cTimer' = LevelDefault.match_timer
    /\ UNCHANGED <<cQueue, cPending, cWin, cResult>>
    /\ UNCHANGED <<unitVars, netVars, srvVars, lvlVars>>

\* the task add_players spawned has the prefab: it is instantiated with the
\* ids of the descriptor at the first free slot of the pool and its Actor gets
\* the kind of the descriptor; ctx.scenes[game.level.scene] panics when the
\* client has no scene
ClientAddPlayerDone(d) ==
    /\ cResult # "Panic"
    /\ d \in cPending
    /\ cPending' = cPending \ {d}
    /\ IF cLoaded
       THEN /\ cNodes' = (d.ids :> [position |-> 0, rotation |-> 0, sound |-> "none",
                                     handle |-> Cardinality(ClientActorHandles(cNodes)) + 1,
                                     kind |-> d.kind])
                            @@ cNodes
            /\ UNCHANGED cResult
       ELSE /\ cResult' = "Panic"
            /\ UNCHANGED cNodes
    /\ ClientNoReport
    /\ UNCHANGED <<cQueue, cLoading, cLoaded, cEntries, cWin, cTimer>>
    /\ UNCHANGED <<unitVars, netVars, srvVars, lvlVars>>

\* Game::update of a client process: Client::read_messages and, unless it
\* returned an error, Client::update; dt is the frame time
ClientGameUpdate(dt) ==
    /\ cResult # "Panic"
    /\ LET st == [loaded |-> cLoaded, loading |-> cLoading, nodes |-> cNodes,
                  entries |-> cEntries, pending |-> cPending, win |-> cWin]
           r == ClientRead(st, cQueue)
       IN  /\ cQueue' = r.queue
           /\ cLoaded' = r.st.loaded
           /\ cLoading' = r.st.loading
           /\ cNodes' = r.st.nodes
           /\ cEntries' = r.st.entries
           /\ cPending' = r.st.pending
           /\ cWin' = IF r.result = "Ok" THEN ClientUpdate(r.st.win, dt) ELSE r.st.win
           /\ UNCHANGED cTimer
           /\ cResult' = r.result
           /\ cReport' = [queue |-> cQueue, nodes |-> cNodes, entries |-> cEntries,
                          loaded |-> cLoaded]
           /\ cInput' = <<>>
    /\ UNCHANGED <<unitVars, netVars, srvVars, lvlVars>>

\* Leaderboard::is_finished
is_finished(es, actor) == actor \in DOMAIN es /\ es[actor].finished

\* Player::on_os_event of the node with instance id `id` in a client process,
\* for an event that changes the input while the menu is hidden: nothing for
\* a RemotePlayer; else an Input for the node's instance id unless the
\* leaderboard has a finished entry under the node's local handle
ClientOsEvent(id) ==
    /\ cResult # "Panic"
    /\ cLoaded
    /\ id \in DOMAIN cNodes
    /\ cNodes[id].kind # "None"
    /\ cInput' = [player |-> id,
                  sent |-> IF /\ cNodes[id].kind # "RemotePlayer"
                              /\ ~is_finished(cEntries, cNodes[id].handle)
                           THEN <<[type |-> "Input", player |-> id, input_state |-> 1]>>
                           ELSE <<>>]
    /\ cReport' = <<>>
    /\ UNCHANGED <<cQueue, cLoading, cPending, cLoaded, cNodes, cEntries, cWin, cTimer,
                   cResult>>
    /\ UNCHANGED <<unitVars, netVars, srvVars, lvlVars>>

\* the scripts of the scene in one frame of a pure client. Trigger,
\* Respawner, Cannon, Jumper, Bot and Player::on_update return at
\* `if game.is_client()`; RotatorObstacle::on_update has no such test and
\* turns its node to the angle v
ClientScriptsUpdate(v) ==
    /\ cResult # "Panic"
    /\ cLoaded
    /\ \E id \in DOMAIN cNodes :
          /\ cNodes[id].kind = "None"
          /\ v # cNodes[id].rotation
          /\ cNodes' = [cNodes EXCEPT ![id].rotation = v]
    /\ ClientNoReport
    /\ UNCHANGED <<cQueue, cLoading, cPending, cLoaded, cEntries, cWin, cTimer,
                   cResult>>
    /\ UNCHANGED <<unitVars, netVars, srvVars, lvlVars>>

\* Game::on_os_event in a client process, the F4 key
ClientKeyF4 ==
    /\ cResult # "Panic"
    /\ cTimer # 3
    /\ cTimer' = 3
    /\ ClientNoReport
    /\ UNCHANGED <<cQueue, cLoading, cPending, cLoaded, cNodes, cEntries, cWin,
                   cResult>>
    /\ UNCHANGED <<unitVars, netVars, srvVars, lvlVars>>

CliNext ==
    \/ \E msg \in ServerMessages : ServerMessageArrives(msg)
    \/ ClientSceneLoaded
    \/ \E d \in cPending : ClientAddPlayerDone(d)
    \/ \E dt \in ClientDts : ClientGameUpdate(dt)

\* the state after construction: a fresh stream, a fresh server, a fresh
\* level, a fresh client
(* The leaderboard on its own.                                             *)

\* the distances to the finish point the model tells apart
Distances == 0..MaxDistance

\* temp_array.sort_by of Leaderboard::update, one element: the sort is stable,
\* x comes behind every element that is not farther than x
\* a sort that leaves the elements in the order the HashSet yielded them
InsertByDistance_Unsorted(sorted, x, dist) == Append(sorted, x)

RECURSIVE InsertByDistance(_, _, _)
InsertByDistance(sorted, x, dist) ==
    IF sorted = <<>> THEN <<x>>
    ELSE IF dist[Head(sorted)] <= dist[x]
         THEN <<Head(sorted)>> \o InsertByDistance(Tail(sorted), x, dist)
         ELSE <<x>> \o sorted

RECURSIVE SortByDistance(_, _)
SortByDistance(seq, dist) ==
    IF seq = <<>> THEN <<>>
    ELSE InsertByDistance(SortByDistance(SubSeq(seq, 1, Len(seq) - 1), dist),
                          seq[Len(seq)], dist)

\* Leaderboard::update(actors, finish_point, graph) on the entries es.
\* order: the actors as the HashSet yields them; live: the ones whose node
\* exists and has an Actor script; dist: their distance to the finish point;
\* finish_point: whether the graph has the finish point
update(es, order, live, dist, finish_point) ==
    IF ~finish_point THEN es
    ELSE LET temp_array ==
                 SortByDistance(SelectSeq(order, LAMBDA a : a \in live), dist)
             ranked == {temp_array[i] : i \in 1..Len(temp_array)}
         IN  [a \in DOMAIN es \cup ranked |->
                 IF a \in ranked
                 THEN [(IF a \in DOMAIN es THEN es[a] ELSE DefaultEntry(a))
                          EXCEPT !.real_time_position = IndexOf(temp_array, a) - 1]
                 ELSE es[a]]

\* the players of the WinContext that the EndMatch arm of
\* Client::read_messages builds from the entries es, values: the entries as
\* the HashMap yields them. A player is named by its actor.
WinPlayers(es, values) ==
    LET sorted == SortByDistance(values,
                                 [a \in DOMAIN es |-> es[a].finished_position])
    IN  [i \in 1..Len(sorted) |->
            [name |-> sorted[i], place |-> es[sorted[i]].finished_position]]

\* win: <<>> (no win context) or <<players>>
BoardInit ==
    board = [entries |-> <<>>, before |-> <<>>, order |-> <<>>, live |-> {},
             dist |-> [a \in ActorHandles |-> 0], finish_point |-> TRUE,
             updated |-> FALSE, win |-> <<>>, panic |-> FALSE]

\* the scene between two updates: actors are added to Level.actors, their
\* nodes are removed, they move, the level has a finish point or has none
BoardScene(order, live, dist, finish_point) ==
    /\ ~board.panic
    /\ live \subseteq {order[i] : i \in 1..Len(order)}
    /\ \A a \in ActorHandles \ live : dist[a] = 0
    /\ board' = [board EXCEPT !.order = order, !.live = live, !.dist = dist,
                              !.finish_point = finish_point, !.updated = FALSE,
                              !.win = <<>>]
    /\ UNCHANGED <<actorState, netVars, srvVars, lvlVars, cliVars>>

\* Leaderboard::finish for an actor of the level
BoardFinish(a) ==
    /\ ~board.panic
    /\ a \in board.live
    /\ board' = [board EXCEPT !.entries = finish(board.entries, a).entries,
                              !.updated = FALSE, !.win = <<>>]
    /\ UNCHANGED <<actorState, netVars, srvVars, lvlVars, cliVars>>

\* Leaderboard::update
BoardUpdate ==
    /\ ~board.panic
    /\ ~board.updated
    /\ board' = [board EXCEPT
                    !.entries = update(board.entries, board.order, board.live,
                                       board.dist, board.finish_point),
                    !.before = board.entries,
                    !.updated = TRUE,
                    !.win = <<>>]
    /\ UNCHANGED <<actorState, netVars, srvVars, lvlVars, cliVars>>

\* Client::read_messages, the EndMatch arm, in a process whose scene is this
\* one: the win context is built from the entries; the unwrap panics for an
\* entry whose actor is no Actor of the scene
BoardEndMatch(values) ==
    /\ ~board.panic
    /\ board.win = <<>>
    /\ IF DOMAIN board.entries \subseteq board.live
       THEN board' = [board EXCEPT !.win = <<WinPlayers(board.entries, values)>>,
                                   !.updated = FALSE]
       ELSE board' = [board EXCEPT !.panic = TRUE, !.updated = FALSE]
    /\ UNCHANGED <<actorState, netVars, srvVars, lvlVars, cliVars>>

BoardNext ==
    \/ \E S \in SUBSET ActorHandles, finish_point \in BOOLEAN :
           \E order \in Orders(S), live \in SUBSET S,
              dist \in [ActorHandles -> Distances] :
               BoardScene(order, live, dist, finish_point)
    \/ \E a \in ActorHandles : BoardFinish(a)
    \/ BoardUpdate
    \/ \E values \in Orders(DOMAIN board.entries) : BoardEndMatch(values)

-----------------------------------------------------------------------------
(* One actor and its ragdoll. Times are in tenths of a second.             *)

\* Actor::default, max_in_air_time: 1.1
MaxInAirTime == 11
\* Actor::default, stand_up_interval: 1.0
StandUpInterval == 10
\* in_air_time after a serious impact: 999.0
ImpactAirTime == 9990

\* the frame times of the actor's scene
ActorDts == {1, 5}

\* hit, owed, ground: history. hit - the last on_update detected a serious
\* impact; owed - the on_update before the last did, and ragdoll was not
\* debug-disabled at the last; ground - the last on_update had ground contact
ActorStateInit ==
    actorState = [in_air_time |-> 0, stand_up_timer |-> 0, ragdoll |-> FALSE,
                  disable_ragdoll |-> FALSE, hit |-> FALSE, owed |-> FALSE,
                  ground |-> FALSE]

\* Actor::on_update. has_ground_contact and serious_impact are what the
\* physics reports for this frame. A timer that has passed its threshold is
\* kept at the largest value the code can give it.
ActorOnUpdate(dt, has_ground_contact, serious_impact) ==
    /\ LET air == IF has_ground_contact THEN 0
                  ELSE Min(actorState.in_air_time + dt, ImpactAirTime)
           stand == IF has_ground_contact
                    THEN Min(actorState.stand_up_timer + dt, StandUpInterval)
                    ELSE 0
           ragdoll == IF has_ground_contact
                      THEN IF stand >= StandUpInterval THEN FALSE ELSE actorState.ragdoll
                      ELSE IF ~actorState.disable_ragdoll /\ air >= MaxInAirTime
                           THEN TRUE ELSE actorState.ragdoll
       IN  actorState' = [actorState EXCEPT
                       !.in_air_time = IF serious_impact THEN ImpactAirTime ELSE air,
                       !.stand_up_timer = stand,
                       !.ragdoll = ragdoll,
                       !.hit = serious_impact,
                       !.owed = actorState.hit /\ ~actorState.disable_ragdoll,
                       !.ground = has_ground_contact]
    /\ UNCHANGED <<board, netVars, srvVars, lvlVars, cliVars>>

\* Game::on_os_event, F3: the debug setting is switched
ActorKeyF3 ==
    /\ actorState' = [actorState EXCEPT !.disable_ragdoll = ~@]
    /\ UNCHANGED <<board, netVars, srvVars, lvlVars, cliVars>>

ActorNext ==
    \/ \E dt \in ActorDts, has_ground_contact \in BOOLEAN, serious_impact \in BOOLEAN :
           ActorOnUpdate(dt, has_ground_contact, serious_impact)
    \/ ActorKeyF3

-----------------------------------------------------------------------------
Init == NetInit /\ SrvInit /\ LvlInit /\ CliInit /\ BoardInit /\ ActorStateInit

\* an actor whose frames bring ground contacts and impacts in any order
SpecActor == Init /\ [][ActorNext]_vars

\* a leaderboard, the scene around it changing between its updates
SpecBoard == Init /\ [][BoardNext]_vars

SpecServer == Init /\ [][SrvNext]_vars

SpecLevel == Init /\ [][LvlNext]_vars

\* the host process over two matches: actors finish, the timer runs out, the
\* host's client drops the scene, the next level is started and loaded
RematchNext ==
    \/ StartGame("A")
    \/ SceneLoaded
    \/ \E a \in ActorHandles : ActorInit(a)
    \/ \E a \in ActorHandles : ActorMoves(a)
    \/ \E order \in SeqsUpTo(ActorHandles, MaxActors) : TriggerUpdate(order)
    \/ HostClientEndMatch
    \/ \E dt \in Dts : GameUpdate(dt, FALSE)

SpecRematch == Init /\ [][RematchNext]_vars

\* the host process whose frames keep coming and whose own client gets to
\* read an EndMatch that was sent to it
SpecLevelLive ==
    /\ SpecLevel
    /\ WF_vars(\E dt \in Dts, late \in BOOLEAN : GameUpdate(dt, late))
    /\ WF_vars(HostClientEndMatch)
SpecSpawn == Init /\ [][SpawnNext]_vars

SpecClient == Init /\ [][CliNext]_vars

\* the leaderboards of a match of two avatars, keyed by the handles the
\* avatars have in the server's scene; Leaderboard::finish gives every
\* finisher the place 1
InputBoards ==
    {<<>>}
    \cup {<<[DefaultEntry(1) EXCEPT !.finished = f[1],
                                    !.finished_position = IF f[1] THEN 1 ELSE 0],
            [DefaultEntry(2) EXCEPT !.finished = f[2],
                                    !.finished_position = IF f[2] THEN 1 ELSE 0]>> :
              f \in [1..2 -> BOOLEAN]}

\* the ServerMessages that reach the peer of the second connection in one
\* match
InputMessages ==
    {[type |-> "LoadLevel", path |-> "A"]}
    \cup {PeerAvatars[i] : i \in 1..2}
    \cup {[type |-> "LeaderBoard", players |-> ps] : ps \in InputBoards}

\* the client has been sent msg
Announced(msg) ==
    \/ \E i \in 1..Len(cQueue) : cQueue[i] = msg
    \/ msg.type = "LoadLevel" /\ (cLoading \/ cLoaded)
    \/ msg.type = "AddPlayers" /\ (msg \in cPending \/ msg.ids \in DOMAIN cNodes)

\* the order the server sends them in: LoadLevel from start_game, the
\* descriptors from on_scene_loaded, each once, then the leaderboards of its
\* ticks
InOrder(msg) ==
    IF msg.type = "LoadLevel" THEN ~Announced(msg)
    ELSE IF msg.type = "AddPlayers"
    THEN /\ ~Announced(msg)
         /\ Announced([type |-> "LoadLevel", path |-> "A"])
         /\ msg = PeerAvatars[2] => Announced(PeerAvatars[1])
    ELSE Announced(PeerAvatars[2])

\* a client process in a match with the avatar of another peer: its avatars
\* are instantiated as their tasks finish, the player gives input
InputNext ==
    \/ \E msg \in InputMessages : InOrder(msg) /\ ServerMessageArrives(msg)
    \/ ClientSceneLoaded
    \/ \E d \in cPending : ClientAddPlayerDone(d)
    \/ \E dt \in ClientDts : ClientGameUpdate(dt)
    \/ \E id \in DOMAIN cNodes : ClientOsEvent(id)
    \/ \E v \in Coords : ClientScriptsUpdate(v)
    \/ ClientKeyF4

SpecInput == Init /\ [][InputNext]_vars

\* the client process whose frames keep coming
SpecClientLive == SpecClient /\ WF_vars(\E dt \in ClientDts : ClientGameUpdate(dt))

SpecNet == Init /\ [][NetNext]_vars

\* the read loop goes on to its next pass as long as it has not left
SpecDrain ==
    /\ Init /\ [][DrainNext]_vars
    /\ WF_vars(DrainPass)

-----------------------------------------------------------------------------
(* Framing: what the claims speak about.                                   *)

\* b does not hold one whole frame: fewer than 4 header bytes, or a header
\* whose body is not yet all there
IsPartial(b) == Len(b) < 4 \/ 4 + LeValue(SubSeq(b, 1, 4)) > Len(b)

\* b starts with a whole frame whose body is no message
FrontMalformed(b) ==
    /\ ~IsPartial(b)
    /\ ~try_create(SubSeq(b, 5, 4 + LeValue(SubSeq(b, 1, 4)))).ok

\* the whole frames at the front of b, frame by frame: the messages of those
\* that deserialize, and what is left behind them
RECURSIVE WholeFrames(_)
WholeFrames(b) ==
    IF IsPartial(b) THEN [msgs |-> <<>>, rest |-> b]
    ELSE LET end == 4 + LeValue(SubSeq(b, 1, 4))
             d == try_create(SubSeq(b, 5, end))
             r == WholeFrames(SubSeq(b, end + 1, Len(b)))
         IN  [msgs |-> (IF d.ok THEN <<d.msg>> ELSE <<>>) \o r.msgs, rest |-> r.rest]

\* C1: a message written whole by send_message and then extracted from a
\* buffer holding exactly its bytes comes out as that same message, and the
\* buffer is left empty.
C1_FramingRoundTrip ==
    \A m \in ClientMessage :
        pumpIn = FrameBytes(Serialize(m))
            => (pumpOut = <<m>> /\ buffer = <<>> /\ ~netPanic)

C1_Witness ==
    \E m \in ClientMessage :
        /\ m.name # <<>>
        /\ sentOk = <<m>>
        /\ pumpIn = FrameBytes(Serialize(m))
        /\ pumpOut = <<m>>

\* C2: extracting from a partial buffer (fewer than 4 header bytes, or a
\* header whose body is incomplete) returns None and leaves the buffer as it
\* was. (Stated for streams on which every send succeeded.)
C2_PartialBufferUntouched ==
    (sendFailures = 0 /\ IsPartial(pumpIn))
        => (pumpOut = <<>> /\ buffer = pumpIn /\ ~netPanic)

\* C3: a whole frame whose body does not deserialize is removed, header and
\* body and nothing more, and dropped; after that the connection stays usable
\* and the well-formed frames that follow it are still delivered.
C3_MalformedFrameSkipped ==
    /\ FrontMalformed(pumpIn) =>
          /\ pumpOut = <<>>
          /\ buffer = SubSeq(pumpIn, 4 + LeValue(SubSeq(pumpIn, 1, 4)) + 1, Len(pumpIn))
    /\ (parseErrors > 0 /\ sendFailures = 0) => ~netPanic
    /\ (parseErrors > 0 /\ sendFailures = 0 /\ wire = <<>> /\ buffer = <<>>)
          => delivered = sentOk

\* C4: one pump hands over every whole frame that is buffered, in stream
\* order, and leaves at most one incomplete trailing frame in the buffer.
\* (Stated for streams on which every send succeeded.)
C4_PumpDrainsAllFrames ==
    LET f == WholeFrames(pumpIn)
    IN  sendFailures = 0 => (pumpOut = f.msgs /\ buffer = f.rest /\ ~netPanic)

\* C5: whatever send_message returned, the bytes on the stream are a
\* concatenation of whole frames: no header without its complete body.
C5_WholeFramesOnStream == WholeFrames(written).rest = <<>>

-----------------------------------------------------------------------------
(* The server: what the claims speak about.                                *)

ConnSet == {connections[i] : i \in 1..Len(connections)}

\* the send_message calls of the last handler that carried a message of type t
\* to connection c
SendsOf(t, c) == SelectSeq(sendLog, LAMBDA e : e.conn = c /\ e.msg.type = t)

\* two sends carry the same logical message (the ActorKind tag of an avatar is
\* the receiver's own)
SameMessage(a, b) ==
    /\ a.type = b.type
    /\ IF a.type = "AddPlayers" THEN a.ids = b.ids ELSE a = b

\* the nodes list of the UpdateTick the last handler sent
TickNodesSent ==
    LET ts == SelectSeq(sendLog, LAMBDA e : e.msg.type = "UpdateTick")
    IN  IF ts = <<>> THEN <<>> ELSE ts[1].msg.nodes

TickSoundsSent ==
    LET ts == SelectSeq(sendLog, LAMBDA e : e.msg.type = "UpdateTick")
    IN  IF ts = <<>> THEN <<>> ELSE ts[1].msg.sounds

\* C6: a send that fails is logged and is never fatal, at every send site of
\* the server: the handler does not crash, the message still goes to every
\* other connection, and the failing connection stays in the list.
C6_SendErrorNeverFatal ==
    AnyErr(sendLog) =>
        /\ ~serverPanic
        /\ \A i \in 1..Len(sendLog) : sendLog[i].conn \in ConnSet
        /\ \A i \in 1..Len(sendLog), c \in ConnSet :
              \E k \in 1..Len(sendLog) :
                  sendLog[k].conn = c /\ SameMessage(sendLog[k].msg, sendLog[i].msg)

\* C7: an entity's NodeState is in the nodes list of tick i exactly when its
\* state differs from its state at tick i-1; nothing is sent for it at the
\* first tick that sees it.
C7_DeltaIffChanged ==
    lastHandler = "update" =>
        \A id \in DOMAIN tickSeen :
            (EntriesFor(TickNodesSent, id) # <<>>)
                <=> (~tickSeen[id].first /\ tickSeen[id].now # tickSeen[id].before)

\* C8: a receiver that had an entity in the state it was first seen in and
\* applied every NodeState sent for it holds the server's state of it after
\* each tick.
C8_ReceiverConverges ==
    \A id \in DOMAIN track :
        track[id].mirror = [position |-> track[id].now.position,
                            rotation |-> track[id].now.rotation]

C8_Witness ==
    /\ lastHandler = "update"
    /\ \E id \in DOMAIN tickSeen :
          /\ ~tickSeen[id].first
          /\ tickSeen[id].now.rotation # tickSeen[id].before.rotation
          /\ EntriesFor(TickNodesSent, id) # <<>>
          /\ track[id].mirror.rotation = tickSeen[id].now.rotation
    /\ \E id \in DOMAIN tickSeen :
          /\ ~tickSeen[id].first
          /\ tickSeen[id].now.position # tickSeen[id].before.position
          /\ track[id].mirror.position = tickSeen[id].now.position

\* C9: after each tick the cached previous state of every tracked entity,
\* node and audio emitter, is the last value sent for it (the state it was
\* first seen in while nothing has been sent for it).
C9_CacheEqualsLastSent ==
    \A h \in DOMAIN nodes :
        nodes[h].id \in DOMAIN track =>
            /\ h \in DOMAIN previous_node_states
            /\ previous_node_states[h] = track[nodes[h].id].sent
            /\ IsSound(nodes[h]) =>
                  /\ h \in DOMAIN previous_sound_states
                  /\ previous_sound_states[h] = track[nodes[h].id].sndSent

C9_Witness ==
    /\ lastHandler = "update"
    /\ TickNodesSent # <<>>
    /\ TickSoundsSent # <<>>
    /\ \E h \in DOMAIN nodes :
          /\ nodes[h].id \in DOMAIN track
          /\ IsSound(nodes[h])
          /\ previous_node_states[h] = TickNodesSent[1]
          /\ previous_sound_states[h] = TickSoundsSent[1]

\* C10: a server tick with a scene loaded sends exactly one UpdateTick to
\* every connection; a tick with no scene loaded sends none.
C10_OneUpdateTickPerTick ==
    lastHandler = "update" =>
        \A c \in ConnSet :
            Len(SendsOf("UpdateTick", c)) = (IF sceneLevel # "none" THEN 1 ELSE 0)

-----------------------------------------------------------------------------
(* The level: what the claims speak about.                                 *)

\* the Finished events of the last Trigger::on_update that name actor a
EventsFor(evs, a) == SelectSeq(evs, LAMBDA e : e.actor = a)

\* C11: the k-th distinct actor to finish has finished_position k, whatever
\* Leaderboard::update and finish calls came before; so the finished actors
\* have the ranks 1..N in the order they finished and no two share a rank.
C11_RanksInFinishOrder ==
    /\ \A k \in 1..Len(finishOrder) :
          LET a == finishOrder[k]
          IN  (a \in DOMAIN entries /\ entries[a].finished)
                  => entries[a].finished_position = k
    /\ \A a, b \in DOMAIN entries :
          (a # b /\ entries[a].finished /\ entries[b].finished)
              => entries[a].finished_position # entries[b].finished_position

\* C12 (first half): finish for an actor that is finished already leaves its
\* entry as it was and sends no Finished event.
C12_FinishTwiceIsNoOp ==
    (lastHandler = "on_update" /\ trigReport # <<>>) =>
        \A i \in 1..Len(trigReport.calls) :
            LET a == trigReport.calls[i]
            IN  (a \in DOMAIN trigReport.before /\ trigReport.before[a].finished)
                    => /\ entries[a] = trigReport.before[a]
                       /\ EventsFor(trigReport.emitted, a) = <<>>

\* C12 (second half): an actor produces one Finished event in a match, however
\* many ticks it stays inside the trigger.
C12_OneFinishedEvent == ~refinished

C14_ClampedFromFinishFrame ==
    (lastHandler = "on_update" /\ finishOrder # <<>>) => match_timer <= SuddenDeathTime

\* C14, amended: once an actor has finished, the timer is at most 60 seconds
\* from the end of the first Game::update whose Menu::update has received the
\* Finished event (no event waits on the channel), and it stays at most 60
\* seconds for the rest of the match.
C14_ClampedOnceReceived ==
    /\ []((finishOrder # <<>> /\ events = <<>>) => match_timer <= SuddenDeathTime)
    /\ [][(finishOrder # <<>> /\ match_timer <= SuddenDeathTime)
            => match_timer' <= SuddenDeathTime]_vars

\* the Finished event of the first finisher has been received by a
\* Game::update that found more than 60 seconds on the clock
C14_Witness ==
    /\ finishOrder # <<>>
    /\ events = <<>>
    /\ lastHandler = "update"
    /\ lastResult = "Ok"
    /\ drainReport # <<>>
    /\ drainReport.before > SuddenDeathTime
    /\ match_timer <= SuddenDeathTime

-----------------------------------------------------------------------------
(* The spawns of a scene load: what the claims speak about.                *)

\* the AddPlayers sends of Server::on_scene_loaded, if it is the last handler
SpawnSends ==
    IF lastHandler = "on_scene_loaded"
    THEN SelectSeq(sendLog, LAMBDA e : e.msg.type = "AddPlayers")
    ELSE <<>>

\* the place of connection c in the server's list
ConnIndex(c) == CHOOSE i \in 1..Len(connections) : connections[i] = c

\* two descriptors of the same logical spawn
SameSpawn(a, b) ==
    a.ids = b.ids /\ a.path = b.path /\ a.position = b.position

\* C15: every logical spawn of a scene load has one id map, and every
\* connection (every one that is alive, at the least) receives a descriptor with
\* that map, path and position; descriptors of different spawns carry
\* different id maps.
C15_SpawnCongruence ==
    \A i \in 1..Len(SpawnSends) :
        /\ \A c \in ConnSet \ broken :
              \E k \in 1..Len(SpawnSends) :
                  /\ SpawnSends[k].conn = c
                  /\ SpawnSends[k].ok
                  /\ SameSpawn(SpawnSends[k].msg, SpawnSends[i].msg)
        /\ \A k \in 1..Len(SpawnSends) :
              SpawnSends[k].msg.ids = SpawnSends[i].msg.ids
                  => SameSpawn(SpawnSends[k].msg, SpawnSends[i].msg)
        /\ \A k \in 1..Len(SpawnSends) :
              (k # i /\ SpawnSends[k].conn = SpawnSends[i].conn)
                  => SpawnSends[k].msg.ids # SpawnSends[i].msg.ids

\* the avatar descriptors among the spawns
PlayerSpawnSends ==
    SelectSeq(SpawnSends, LAMBDA e : e.msg.path = "data/models/player.rgs")

\* C16: the descriptor of the avatar of player number p that goes to connection
\* number c is tagged Player exactly when p = c and RemotePlayer otherwise; a
\* connection is sent at most one avatar tagged Player, its own.
C16_RoleTagging ==
    /\ \A i \in 1..Len(PlayerSpawnSends) :
          LET e == PlayerSpawnSends[i]
          IN  /\ e.msg.kind \in {"Player", "RemotePlayer"}
              /\ e.msg.kind = "Player" <=> e.msg.position = ConnIndex(e.conn)
    /\ \A i, k \in 1..Len(PlayerSpawnSends) :
          LET a == PlayerSpawnSends[i]
              b == PlayerSpawnSends[k]
          IN  (a.conn = b.conn /\ a.msg.kind = "Player" /\ b.msg.kind = "Player")
                  => i = k

\* a connection was sent its own avatar and the avatar of another peer
C16_Witness ==
    \E i, k \in 1..Len(PlayerSpawnSends) :
        /\ PlayerSpawnSends[i].conn = PlayerSpawnSends[k].conn
        /\ PlayerSpawnSends[i].msg.kind = "Player"
        /\ PlayerSpawnSends[k].msg.kind = "RemotePlayer"
        /\ PlayerSpawnSends[i].msg.position = ConnIndex(PlayerSpawnSends[i].conn)
        /\ PlayerSpawnSends[k].msg.position # ConnIndex(PlayerSpawnSends[k].conn)

\* C17: on scene load, for every connection index i an avatar is announced at
\* the i-th start point to all connections (to every one that is alive, at the
\* least), for any number of connections and start points.
C17_EveryPeerGetsItsStartPoint ==
    lastHandler = "on_scene_loaded" =>
        \A i \in 1..Len(connections) :
            \A c \in ConnSet \ broken :
                \E k \in 1..Len(PlayerSpawnSends) :
                    /\ PlayerSpawnSends[k].conn = c
                    /\ PlayerSpawnSends[k].ok
                    /\ PlayerSpawnSends[k].msg.position = i

\* the Bot descriptors among the spawns
BotSpawnSends == SelectSeq(SpawnSends, LAMBDA e : e.msg.kind = "Bot")

\* C18: with add_bots set every start point past the connections gets exactly
\* one Bot descriptor, sent to all connections (to every one that is alive, at
\* the least); with add_bots not set no Bot descriptor is sent; no start point
\* is used for two actors.
C18_BotFilling ==
    lastHandler = "on_scene_loaded" =>
        /\ add_bots =>
              \A sp \in (Len(connections) + 1)..StartPoints(sceneLevel) :
                  \A c \in ConnSet \ broken :
                      /\ \E k \in 1..Len(BotSpawnSends) :
                            /\ BotSpawnSends[k].conn = c
                            /\ BotSpawnSends[k].ok
                            /\ BotSpawnSends[k].msg.position = sp
                      /\ \A k, m \in 1..Len(BotSpawnSends) :
                            ( /\ BotSpawnSends[k].conn = c
                              /\ BotSpawnSends[m].conn = c
                              /\ BotSpawnSends[k].msg.position = sp
                              /\ BotSpawnSends[m].msg.position = sp ) => k = m
        /\ ~add_bots => BotSpawnSends = <<>>
        /\ \A k, m \in 1..Len(SpawnSends) :
              SpawnSends[k].msg.position = SpawnSends[m].msg.position
                  => SameSpawn(SpawnSends[k].msg, SpawnSends[m].msg)

-----------------------------------------------------------------------------
(* The client: what the claims speak about.                                *)

\* the messages the last read_messages took off the queue, in order
ClientPopped ==
    IF cReport = <<>> THEN <<>>
    ELSE SubSeq(cReport.queue, 1, Len(cReport.queue) - Len(cQueue))

\* the LeaderBoard messages among them
BoardsPopped == SelectSeq(ClientPopped, LAMBDA m : m.type = "LeaderBoard")

\* C19: when a client has processed a LeaderBoard message its mapping is
\* exactly the received entries keyed by actor: an entry the message does not
\* hold is gone, nothing of the previous mapping stays.
C19_LeaderBoardReplaces ==
    BoardsPopped # <<>> =>
        LET ps == BoardsPopped[Len(BoardsPopped)].players
        IN  /\ DOMAIN cEntries = {ps[i].actor : i \in 1..Len(ps)}
            /\ \A i \in 1..Len(ps) : cEntries[ps[i].actor] = ps[i]

\* the mapping held an entry that the LeaderBoard just processed does not
\* hold, and the message brought an entry of its own
C19_Witness ==
    /\ BoardsPopped # <<>>
    /\ LET ps == BoardsPopped[Len(BoardsPopped)].players
       IN  /\ ps # <<>>
           /\ \E a \in DOMAIN cReport.entries :
                 /\ \A i \in 1..Len(ps) : ps[i].actor # a
                 /\ a \notin DOMAIN cEntries

\* the last read_messages found the scene loaded and, first in the queue, an
\* UpdateTick with a NodeState whose id no node of the scene had; the messages
\* behind it were of the kinds that never fail
UnknownIdTickRead ==
    /\ cReport # <<>>
    /\ cReport.loaded
    /\ cReport.queue # <<>>
    /\ cReport.queue[1].type = "UpdateTick"
    /\ \E i \in 1..Len(cReport.queue[1].nodes) :
          cReport.queue[1].nodes[i].node \notin DOMAIN cReport.nodes
    /\ \A k \in 2..Len(cReport.queue) :
          cReport.queue[k].type \in {"LoadLevel", "AddPlayers", "LeaderBoard"}

\* C20: a NodeState of an UpdateTick whose id is not found in the client's
\* scene is ignored: the other entries of the tick are applied, the messages
\* queued behind the tick are processed in the same read_messages, and
\* read_messages returns no error.
C20_UnknownIdIgnored ==
    UnknownIdTickRead =>
        /\ cResult = "Ok"
        /\ cQueue = <<>>
        /\ \A n \in DOMAIN cReport.nodes :
              /\ n \in DOMAIN cNodes
              /\ TransformOf(cNodes[n]) =
                    ApplyTick(TransformOf(cReport.nodes[n]), n, cReport.queue[1].nodes)

\* the last read_messages found the scene loaded and one message in the
\* queue, an UpdateTick all of whose ids name nodes of the scene
KnownTickRead ==
    /\ cReport # <<>>
    /\ cReport.loaded
    /\ Len(cReport.queue) = 1
    /\ cReport.queue[1].type = "UpdateTick"
    /\ \A i \in 1..Len(cReport.queue[1].nodes) :
          cReport.queue[1].nodes[i].node \in DOMAIN cReport.nodes
    /\ \A i \in 1..Len(cReport.queue[1].sounds) :
          cReport.queue[1].sounds[i].node \in DOMAIN cReport.nodes

\* C21: after a client has applied an UpdateTick, the audio emitter named by
\* each SoundState of the tick plays exactly when is_playing is set.
C21_SoundStateApplied ==
    KnownTickRead =>
        \A i \in 1..Len(cReport.queue[1].sounds) :
            LET s == cReport.queue[1].sounds[i]
            IN  cNodes[s.node].sound = (IF s.is_playing THEN "playing" ELSE "stopped")

\* the last read_messages found the scene loaded and one message in the
\* queue, an UpdateTick
OneTickRead ==
    /\ cReport # <<>>
    /\ cReport.loaded
    /\ Len(cReport.queue) = 1
    /\ cReport.queue[1].type = "UpdateTick"

\* C22: after a client has applied an UpdateTick, every node that is found for
\* a NodeState of the tick has the position and rotation of that NodeState;
\* applying the same tick once more writes nothing and changes nothing.
C22_TickAppliedOnce ==
    OneTickRead =>
        LET tick == cReport.queue[1].nodes
        IN  /\ \A i \in 1..Len(tick) :
                  tick[i].node \in DOMAIN cReport.nodes =>
                      TransformOf(cNodes[tick[i].node]) =
                          [position |-> tick[i].position, rotation |-> tick[i].rotation]
            /\ ApplyNodes(cNodes, tick).nodes = cNodes
            /\ TickWrites(cNodes, tick) = 0

\* C23: a win context that EndMatch has made counts down in the frames of the
\* client and is cleared when its timer reaches zero: while the frames keep
\* coming (each with dt > 0; none comes once the process has panicked) a
\* client that has a win context gets rid of it.
C23_WinContextCleared == (cWin # <<>>) ~> (cWin = <<>> \/ cResult = "Panic")

\* C24: an Input that names a player id no node of the scene has, or that is
\* read while no scene is loaded, is handled where it occurs: the frame of the
\* server that reads it ends without an error or a panic, has read every
\* queued message and, with a scene loaded, has made its broadcasts.
C24_BadInputHandled ==
    lastHandler = "update" =>
        /\ lastResult = "Ok"
        /\ \A c \in ConnSet : inbox[c] = <<>>
        /\ sceneLevel # "none" =>
               \A c \in ConnSet : Len(SendsOf("LeaderBoard", c)) = 1

\* the handle the avatar with the id map ids has in the scene of the server:
\* there the avatars were instantiated in the order they were announced, and
\* the entries of a LeaderBoard message are keyed by these handles
ServerHandleOf(ids) == ids - FirstAvatarIds + 1

\* C25: a client sends an Input for its avatar only while the avatar has not
\* finished: when Player::on_os_event has sent an Input for an avatar, the
\* client's leaderboard holds no finished entry of that avatar.
C25_InputOnlyWhileUnfinished ==
    (cInput # <<>> /\ cInput.sent # <<>>)
        => ~is_finished(cEntries, ServerHandleOf(cInput.player))

\* the number of the player whose avatar has the id map ids: on_scene_loaded
\* takes one id map per player_num, in order, the bots behind the players
PlayerNumOf(ids) == Cardinality({x \in AvatarIds : x <= ids})

\* C26: an Input changes the input state of the sender's own avatar only: a
\* frame of the server changes the input state of a player's node only if
\* the connection of that player had an Input for it in its queue.
C26_InputOnlyOwnAvatar ==
    [][lastHandler' = "update" =>
          \A h \in DOMAIN nodes :
              nodes'[h].input # nodes[h].input =>
                  /\ PlayerNumOf(nodes[h].id) <= Len(connections)
                  /\ \E i \in 1..Len(inbox[connections[PlayerNumOf(nodes[h].id)]]) :
                         inbox[connections[PlayerNumOf(nodes[h].id)]][i].player
                             = nodes[h].id]_vars

\* C27: the connection list is append-only and order-preserving: no step
\* takes a connection out of it or moves one, not even a step whose send to
\* the connection failed, and a frame of the server puts the connections it
\* accepted behind the ones it had.
C27_ConnectionsAppendOnly ==
    [][/\ Len(connections) <= Len(connections')
       /\ \A i \in 1..Len(connections) : connections'[i] = connections[i]
       /\ lastHandler' = "update" => connections' = connections \o pending]_vars

\* a frame has accepted a second connection, a later send to it has failed,
\* and it is in the list, behind the host
C27_Witness ==
    /\ connections = <<1, 2>>
    /\ lastHandler = "update"
    /\ \E i \in 1..Len(sendLog) : sendLog[i].conn = 2 /\ ~sendLog[i].ok

\* C28: the lifecycle of a match. While the scene of a match is loaded every
\* frame of the server takes the frame time off the timer, down to zero and
\* not below; a frame with no scene broadcasts no tick; and every match that
\* has started comes to the point where the scene reference is cleared (the
\* server is idle again), unless the process has panicked.
C28_MatchLifecycle ==
    /\ [][(lastHandler' = "update" /\ sceneLevel # "none") =>
              /\ match_timer' >= 0
              /\ match_timer' < match_timer \/ match_timer' = 0]_vars
    /\ [](lastHandler = "update" /\ sceneLevel = "none" =>
              \A i \in 1..Len(sendLog) : sendLog[i].msg.type # "UpdateTick")
    /\ (sceneLevel # "none") ~> (sceneLevel = "none" \/ serverPanic)

\* C29: the entity references of the wire messages are stable instance ids,
\* so a client that asks whether one of its actors is finished gets the answer
\* the server gave for the same actor, whatever handles the two processes
\* gave to it.
C29_SameActorInBothProcesses ==
    \A id \in DOMAIN cNodes :
        cNodes[id].kind # "None" =>
            (is_finished(cEntries, cNodes[id].handle)
                 <=> is_finished(cEntries, ServerHandleOf(id)))

\* C30: every scene load makes the level state anew: right after
\* Game::on_scene_loaded the leaderboard has no entry and the match timer is
\* the full 15 minutes, whatever the Level it replaced held.
C30_FreshLevelOnLoad ==
    lastHandler = "on_scene_loaded" =>
        /\ entries = <<>>
        /\ match_timer = FullMatchTime

\* the scene of a second match has loaded over a Level that held a finished
\* entry with its rank and a timer that had run down
C30_Witness ==
    /\ lastHandler = "on_scene_loaded"
    /\ matches = 2
    /\ loadReport.match_timer < FullMatchTime
    /\ \E a \in DOMAIN loadReport.entries :
          /\ loadReport.entries[a].finished
          /\ loadReport.entries[a].finished_position > 0

\* C31: in a pure client the scene mirror, the leaderboard and the match
\* timer are changed by Client Reconciliation only: a step that changes one
\* of them is Client::read_messages, the scene load LoadLevel asked for or
\* the instantiation an AddPlayers asked for.
C31_MirrorChangedByReconciliationOnly ==
    [][(cNodes' # cNodes \/ cEntries' # cEntries \/ cTimer' # cTimer) =>
          \/ cReport' # <<>>
          \/ cLoading /\ ~cLoading'
          \/ cPending' # cPending]_vars

\* C32: no delta on first sight, across matches too: the tick that sees an
\* entity for the first time in its match carries no NodeState and no
\* SoundState for it.
C32_NoDeltaOnFirstSight ==
    lastHandler = "update" =>
        \A id \in DOMAIN tickSeen :
            tickSeen[id].first =>
                /\ EntriesFor(TickNodesSent, id) = <<>>
                /\ EntriesFor(TickSoundsSent, id) = <<>>

\* C33: what reaches a client between LoadLevel and the end of the load is
\* not fatal: while the level is loading nothing the client has done for a
\* message has panicked or returned an error.
C33_EarlyMessagesNotFatal == cLoading => cResult = "Ok"

\* C34: the read loop of the message pump always ends within the frame:
\* whatever the reads return, a process_input that has started its read loop
\* leaves it.
C34_DrainLoopTerminates == (drain.pc = "reading") ~> (drain.pc = "popping")

\* C35: after Leaderboard::update with a finish point the live actors hold the
\* positions 0..n-1, one each, and a closer actor is never ranked behind a
\* farther one; no entry's finished flag or finished_position is changed;
\* without a finish point the entries are what they were.
C35_UpdateRanksByDistance ==
    board.updated =>
        IF board.finish_point
        THEN /\ board.live \subseteq DOMAIN board.entries
             /\ {board.entries[a].real_time_position : a \in board.live}
                    = 0..(Cardinality(board.live) - 1)
             /\ \A a, b \in board.live :
                    a # b => board.entries[a].real_time_position
                                # board.entries[b].real_time_position
             /\ \A a, b \in board.live :
                    board.dist[a] < board.dist[b] =>
                        board.entries[a].real_time_position
                            < board.entries[b].real_time_position
             /\ \A a \in DOMAIN board.before :
                    /\ a \in DOMAIN board.entries
                    /\ board.entries[a].finished = board.before[a].finished
                    /\ board.entries[a].finished_position
                          = board.before[a].finished_position
        ELSE board.entries = board.before

\* an update that reorders: the actor of the larger handle is closer, one
\* entry is finished, one actor of the set has lost its node
C35_Witness ==
    /\ board.updated /\ board.finish_point
    /\ \E a, b \in board.live :
          /\ a < b /\ board.dist[b] < board.dist[a]
          /\ {a, b} \subseteq DOMAIN board.before /\ board.before[a].finished
          /\ board.before[a].real_time_position
                < board.before[b].real_time_position
          /\ board.entries[b].real_time_position
                < board.entries[a].real_time_position

\* C36: in one match the server sends EndMatch to a connection at most once:
\* when an EndMatch of the match has been sent to the host's connection and
\* the scene is still there, no later step sends that connection another.
C36_EndMatchOncePerMatch ==
    [][hostEndMatch =>
          SelectSeq(sendLog', LAMBDA e : e.conn = connections[1]
                                          /\ e.msg.type = "EndMatch") = <<>>]_vars

\* C37: EndMatch is the last message of a match on every connection: a
\* handler that has sent EndMatch to a connection sends it no LeaderBoard and
\* no UpdateTick behind it.
C37_EndMatchIsLast ==
    \A i, j \in 1..Len(sendLog) :
        (i < j /\ sendLog[i].conn = sendLog[j].conn
               /\ sendLog[i].msg.type = "EndMatch") =>
            sendLog[j].msg.type \notin {"LeaderBoard", "UpdateTick"}

\* C38: on every connection the messages of a match come behind the LoadLevel
\* of that match. A connection that is still waiting to be accepted has been
\* sent nothing yet: the step that accepts it sends it no AddPlayers,
\* LeaderBoard, UpdateTick or EndMatch that has no LoadLevel in front of it.
C38_LoadLevelComesFirst ==
    [][\A k \in 1..Len(pending), j \in 1..Len(sendLog') :
          (sendLog'[j].conn = pending[k]
             /\ sendLog'[j].msg.type
                   \in {"AddPlayers", "LeaderBoard", "UpdateTick", "EndMatch"}) =>
              \E i \in 1..(j - 1) :
                  /\ sendLog'[i].conn = pending[k]
                  /\ sendLog'[i].msg.type = "LoadLevel"]_vars

\* C39: the win context lists the actors in finishing order, the first-placed
\* first: every listed player has a place of 1 or more and the places do not
\* decrease along the list.
C39_WinListInFinishingOrder ==
    board.win # <<>> =>
        LET players == board.win[1]
        IN  /\ \A i \in 1..Len(players) : players[i].place >= 1
            /\ \A i, j \in 1..Len(players) :
                   i < j => players[i].place <= players[j].place

\* C40: when an on_update has detected a serious impact, the ragdoll is
\* enabled once the next on_update is over, unless ragdoll is debug-disabled,
\* with or without ground contact.
C40_RagdollAfterImpact == actorState.owed => actorState.ragdoll

====
